---- MODULE Spec2Model ----
(***************************************************************************)
(* Model of the snake environment (snake_game.py), its configuration       *)
(* (configs.py) and the state-key construction of the Q-learning agent     *)
(* (state_representations.py, agent.py).                                   *)
(*                                                                         *)
(* Coordinates are the code's floats; every configuration used here has    *)
(* even board dimensions, so DISPLAY_WIDTH / 2 is integral and all         *)
(* coordinates are modelled as integers.  random.randrange draws are the   *)
(* nondeterministic inputs of reset and step.                              *)
(***************************************************************************)
EXTENDS Integers, Sequences, FiniteSets, TLC

\* ------------------------------------------------------------------ bounds
\* Step is not offered any more once `steps` of a live game reaches MaxSteps.
MaxSteps == 4
\* Largest MAX_STEPS_SINCE_LAST_FRUIT among the configurations explored.
MaxStarve == 3
\* Longest snake among the inputs given to the state encoders.
EncMaxLen == 2
\* Agent.act and Agent.update are not offered any more after MaxCalls calls
\* of the two in all.
MaxCalls == 4
\* Agent.update is not offered once a Q-value has a denominator above MaxDen.
MaxDen == 8
\* train and evaluate stop calling run_episode after MaxEpisodes episodes.
MaxEpisodes == 2
\* Longest persisted file, in JSON tokens, among all the token sequences
\* given to load_qvalues; some longer files are added by name.
MaxTokens == 3

\* --------------------------------------------------------------- constants
\* The literal 10.0 that _generate_food_position rounds to.
FoodGrid == 10

None == "None"

\* SnakeConfig.ACTIONS: action index (0-based in the code) to action string.
Actions == <<"left", "right", "up", "down">>

ActionNames == {Actions[i] : i \in 1..Len(Actions)}

DIRECTION_FROM_STRING(a) ==
    CASE a = "left" -> 0
      [] a = "right" -> 1
      [] a = "up" -> 2
      [] a = "down" -> 3

\* Board geometries explored (DISPLAY_WIDTH, DISPLAY_HEIGHT, BLOCK_SIZE):
\* a 4x4 board whose block size equals the food grid, a 2x2 board with the
\* default's property that BLOCK_SIZE is a proper multiple of 10, and a 5x5
\* board with a block size below 10.
Boards ==
    { <<40, 40, 10>>, <<40, 40, 20>>, <<10, 10, 2>> }

\* SnakeConfig values explored.
Configs ==
    { [DISPLAY_WIDTH |-> b[1], DISPLAY_HEIGHT |-> b[2], BLOCK_SIZE |-> b[3],
       MAX_STEPS_SINCE_LAST_FRUIT |-> n] : b \in Boards, n \in 1..MaxStarve }

VARIABLES
    cfg,                     \* self.cfg, fixed at construction
    snake_x, snake_y,        \* head coordinates
    snake_list,              \* ordered cells, head last
    snake_set,               \* membership set
    snake_length,
    current_direction,
    food,                    \* <<food_x, food_y>>
    dead, reason,
    steps, steps_since_last_fruit,
    ret,                     \* (reward, done, info) returned by the last step
    call,                    \* the last operation invoked and its argument
    eaten,                   \* history: moves whose new head cell held the food
    since_food,              \* history: live step calls since food or reset
    enc_in,                  \* two observations handed to the agent's encoder
    enc_out,                 \* the GameState and Q-table key built for each
    state_strategy,          \* Agent.state_strategy
    epsilon,                 \* Agent.epsilon
    qvalues,                 \* Agent.qvalues: key -> row of four values
    history,                 \* Agent.history: records of state and action
    q_before,                \* history: qvalues at entry of the last agent call
    acall,                   \* the last agent operation, its arguments and
                             \* the operation before it
    aret,                    \* value returned by the last agent operation
    q_terminal,              \* history: qvalues after the terminal step of
                             \* the last update
    calls,                   \* history: number of act and update calls
    pc,                      \* position of the caller inside run_episode
    update_qvalues,          \* run_episode's argument: TRUE in train
    q_first,                 \* history: qvalues before the first episode
    act_log,                 \* history: for each step of the episode, the
                             \* action handed to game.step
    ate_log,                 \* history: for each step of the episode, whether
                             \* the snake ate on it
    episodes,                \* history: number of episodes that have returned
    exc,                     \* the last exception raised, or None
    held,                    \* an observation dict a caller still holds
    held_made,               \* history: what held was when it was returned
    source,                  \* the file load_qvalues is pointed at
    load_ret,                \* value returned by load_qvalues
    stored,                  \* files written by save_qvalues and by train
    total_steps,             \* train's and evaluate's local total_steps
    high_score,              \* train's local high_score
    game_count               \* train's local game_count

gameVars == <<snake_x, snake_y, snake_list, snake_set, snake_length,
              current_direction, food, dead, reason, steps,
              steps_since_last_fruit>>

vars == <<cfg, snake_x, snake_y, snake_list, snake_set, snake_length,
          current_direction, food, dead, reason, steps,
          steps_since_last_fruit, ret, call, eaten, since_food,
          enc_in, enc_out, state_strategy, epsilon, qvalues, history,
          q_before, q_terminal, acall, aret, calls, pc, update_qvalues,
          q_first, act_log, ate_log, episodes, exc, held, held_made, source,
          load_ret, stored, total_steps, high_score, game_count>>

encVars == <<enc_in, enc_out>>

agentVars == <<state_strategy, epsilon, qvalues, history, q_before,
               q_terminal, acall, aret, calls>>

epVars == <<pc, update_qvalues, q_first, act_log, ate_log, episodes>>

callerVars == <<exc, held, held_made>>

fileVars == <<source, load_ret, stored>>

trainVars == <<total_steps, high_score, game_count>>

extVars == <<callerVars, fileVars, trainVars>>

\* ----------------------------------------------------------- pure helpers
\* round(r / 10.0) for an integer r >= 0: Python rounds halves to even.
RoundTenth(r) ==
    LET q == r \div FoodGrid
        m == r % FoodGrid
    IN  IF 2 * m < FoodGrid THEN q
        ELSE IF 2 * m > FoodGrid THEN q + 1
        ELSE IF q % 2 = 0 THEN q ELSE q + 1

\* One coordinate of _generate_food_position for the randrange draw r.
FoodCoordinate(r) == RoundTenth(r) * FoodGrid

\* random.randrange(0, extent - BLOCK_SIZE)
RandRange(c, extent) == 0 .. (extent - c.BLOCK_SIZE - 1)

\* All results of _generate_food_position under configuration c: the two
\* coordinates are drawn independently.
_generate_food_position(c) ==
    { FoodCoordinate(rx) : rx \in RandRange(c, c.DISPLAY_WIDTH) }
        \X { FoodCoordinate(ry) : ry \in RandRange(c, c.DISPLAY_HEIGHT) }

\* Variant of StartPosition: the snake is seeded at the origin.
StartPositionOrigin(c) == <<0, 0>>

\* (snake_x, snake_y) assigned by reset.
StartPosition(c) == <<c.DISPLAY_WIDTH \div 2, c.DISPLAY_HEIGHT \div 2>>

\* <<dx, dy, new_direction>>
_action_to_movement(action) ==
    CASE action = "left" -> <<-cfg.BLOCK_SIZE, 0, DIRECTION_FROM_STRING("left")>>
      [] action = "right" -> <<cfg.BLOCK_SIZE, 0, DIRECTION_FROM_STRING("right")>>
      [] action = "up" -> <<0, -cfg.BLOCK_SIZE, DIRECTION_FROM_STRING("up")>>
      [] action = "down" -> <<0, cfg.BLOCK_SIZE, DIRECTION_FROM_STRING("down")>>

\* Variant of _check_collision: the first element of snake_list (the cell the
\* move would vacate) is left out of the body test.
_check_collision_skip_tail(x, y, set) ==
    IF \/ x >= cfg.DISPLAY_WIDTH
       \/ x < 0
       \/ y >= cfg.DISPLAY_HEIGHT
       \/ y < 0
    THEN <<TRUE, "Screen">>
    ELSE IF <<x, y>> \in (set \ {snake_list[1]})
    THEN <<TRUE, "Tail">>
    ELSE <<FALSE, None>>

\* Variant of _check_collision: the right and bottom edges are tested with >.
_check_collision_edge(x, y, set) ==
    IF \/ x > cfg.DISPLAY_WIDTH
       \/ x < 0
       \/ y > cfg.DISPLAY_HEIGHT
       \/ y < 0
    THEN <<TRUE, "Screen">>
    ELSE IF <<x, y>> \in set
    THEN <<TRUE, "Tail">>
    ELSE <<FALSE, None>>

\* Variant of _check_collision: the top edge is not tested.
_check_collision_top_open(x, y, set) ==
    IF \/ x >= cfg.DISPLAY_WIDTH
       \/ x < 0
       \/ y >= cfg.DISPLAY_HEIGHT
    THEN <<TRUE, "Screen">>
    ELSE IF <<x, y>> \in set
    THEN <<TRUE, "Tail">>
    ELSE <<FALSE, None>>

\* Variant of _check_collision: a body collision is reported without a reason.
_check_collision_no_reason(x, y, set) ==
    IF \/ x >= cfg.DISPLAY_WIDTH
       \/ x < 0
       \/ y >= cfg.DISPLAY_HEIGHT
       \/ y < 0
    THEN <<TRUE, "Screen">>
    ELSE IF <<x, y>> \in set
    THEN <<TRUE, None>>
    ELSE <<FALSE, None>>

\* <<collision, reason>>
_check_collision(x, y, set) ==
    IF \/ x >= cfg.DISPLAY_WIDTH
       \/ x < 0
       \/ y >= cfg.DISPLAY_HEIGHT
       \/ y < 0
    THEN <<TRUE, "Screen">>
    ELSE IF <<x, y>> \in set
    THEN <<TRUE, "Tail">>
    ELSE <<FALSE, None>>

\* Variant of AlreadyDead: step never takes the early return.
AlreadyDeadIgnored == FALSE

\* The early return of step for a game that is over.
AlreadyDead == dead

\* Variant of StarvationReached: the threshold has to be exceeded.
StarvationExceeded(ssl) == ssl > cfg.MAX_STEPS_SINCE_LAST_FRUIT

\* Variant of StarvationReached: the game never ends for lack of food.
StarvationNever(ssl) == FALSE

\* The starvation test on the incremented counter.
StarvationReached(ssl) == ssl >= cfg.MAX_STEPS_SINCE_LAST_FRUIT

\* Variant of MovedList: the first element is never removed.
MovedListNoPop(list, new_head, ate, length) == Append(list, new_head)

\* snake_list after the append of new_head and, when no food was eaten, the
\* removal of the first element if the list is longer than snake_length.
MovedList(list, new_head, ate, length) ==
    LET appended == Append(list, new_head)
    IN  IF ate THEN appended
        ELSE IF Len(appended) > length THEN Tail(appended)
        ELSE appended

\* Variant of MovedSet: the removed first element stays in the set.
MovedSetNoDiscard(set, list, new_head, ate, length) == set \cup {new_head}

\* snake_set after the add of new_head and, when no food was eaten, the
\* discard of the removed first element.
MovedSet(set, list, new_head, ate, length) ==
    LET added == set \cup {new_head}
    IN  IF ate THEN added
        ELSE IF Len(list) + 1 > length THEN added \ {list[1]}
        ELSE added

get_score == snake_length - 1

\* ---------------------------------------------------------------- actions
\* No agent has been constructed.
AgentIdle ==
    /\ state_strategy = None
    /\ epsilon = <<0, 1>>
    /\ qvalues = <<>>
    /\ history = <<>>
    /\ q_before = <<>>
    /\ q_terminal = <<>>
    /\ acall = [op |-> "none", key |-> <<>>, reason |-> None, explored |-> FALSE,
                after |-> "none"]
    /\ aret = None
    /\ calls = 0

\* run_episode is not running.
EpisodeIdle ==
    /\ pc = "none"
    /\ update_qvalues = FALSE
    /\ q_first = <<>>
    /\ act_log = <<>>
    /\ ate_log = <<>>
    /\ episodes = 0

\* No call has raised, no caller holds an observation, no file has been
\* read or written, and train is not running.
ExtIdle ==
    /\ exc = None
    /\ held = <<>>
    /\ held_made = <<>>
    /\ source = <<>>
    /\ load_ret = <<>>
    /\ stored = <<>>
    /\ total_steps = 0
    /\ high_score = 0
    /\ game_count = 0

\* __init__: the configuration is read and reset() is run.
Init ==
    /\ cfg \in Configs
    /\ snake_x = StartPosition(cfg)[1]
    /\ snake_y = StartPosition(cfg)[2]
    /\ snake_list = <<StartPosition(cfg)>>
    /\ snake_set = {StartPosition(cfg)}
    /\ snake_length = 1
    /\ current_direction = 1
    /\ food \in _generate_food_position(cfg)
    /\ dead = FALSE
    /\ reason = None
    /\ steps = 0
    /\ steps_since_last_fruit = 0
    /\ ret = None
    /\ call = [op |-> "init", action |-> None, was_dead |-> FALSE, was_length |-> 0]
    /\ eaten = 0
    /\ since_food = 0
    /\ enc_in = <<>>
    /\ enc_out = <<>>
    /\ AgentIdle
    /\ EpisodeIdle
    /\ ExtIdle

\* SnakeGame.reset.
game_reset ==
    /\ call' = [op |-> "reset", action |-> None, was_dead |-> dead,
                was_length |-> snake_length]
    /\ snake_x' = StartPosition(cfg)[1]
    /\ snake_y' = StartPosition(cfg)[2]
    /\ snake_list' = <<StartPosition(cfg)>>
    /\ snake_set' = {StartPosition(cfg)}
    /\ snake_length' = 1
    /\ current_direction' = 1
    /\ food' \in _generate_food_position(cfg)
    /\ dead' = FALSE
    /\ reason' = None
    /\ steps' = 0
    /\ steps_since_last_fruit' = 0
    /\ eaten' = 0
    /\ since_food' = 0
    /\ ret' = None

Reset ==
    /\ game_reset
    /\ UNCHANGED <<cfg, encVars, agentVars, epVars>>
    /\ UNCHANGED extVars

\* step on a game that is over.
StepDead(action) ==
    /\ AlreadyDead
    /\ ret' = [reward |-> -1, done |-> TRUE, info |-> [reason |-> reason]]
    /\ UNCHANGED <<gameVars, eaten, since_food>>

\* Variant of the starvation step that has already turned the snake to the
\* requested direction when it ends the game.
StepStarveTurned(action) ==
    /\ ~AlreadyDead
    /\ StarvationReached(steps_since_last_fruit + 1)
    /\ steps' = steps + 1
    /\ steps_since_last_fruit' = steps_since_last_fruit + 1
    /\ dead' = TRUE
    /\ reason' = "Steps"
    /\ ret' = [reward |-> -1, done |-> TRUE, info |-> [reason |-> "Steps"]]
    /\ since_food' = since_food + 1
    /\ current_direction' = _action_to_movement(action)[3]
    /\ UNCHANGED <<snake_x, snake_y, snake_list, snake_set, snake_length,
                   food, eaten>>

\* step that reaches the starvation threshold.
StepStarve(action) ==
    /\ ~AlreadyDead
    /\ StarvationReached(steps_since_last_fruit + 1)
    /\ steps' = steps + 1
    /\ steps_since_last_fruit' = steps_since_last_fruit + 1
    /\ dead' = TRUE
    /\ reason' = "Steps"
    /\ ret' = [reward |-> -1, done |-> TRUE, info |-> [reason |-> "Steps"]]
    /\ since_food' = since_food + 1
    /\ UNCHANGED <<snake_x, snake_y, snake_list, snake_set, snake_length,
                   current_direction, food, eaten>>

\* step whose new head cell collides.
StepCollide(action) ==
    LET mv == _action_to_movement(action)
        new_x == snake_x + mv[1]
        new_y == snake_y + mv[2]
        coll == _check_collision(new_x, new_y, snake_set)
    IN  /\ ~AlreadyDead
        /\ ~StarvationReached(steps_since_last_fruit + 1)
        /\ coll[1]
        /\ steps' = steps + 1
        /\ steps_since_last_fruit' = steps_since_last_fruit + 1
        /\ dead' = TRUE
        /\ reason' = coll[2]
        /\ ret' = [reward |-> -1, done |-> TRUE, info |-> [reason |-> coll[2]]]
        /\ since_food' = since_food + 1
        /\ UNCHANGED <<snake_x, snake_y, snake_list, snake_set, snake_length,
                       current_direction, food, eaten>>

\* step that moves the snake, eating the food if the new head is on it.
StepMove(action) ==
    LET mv == _action_to_movement(action)
        new_x == snake_x + mv[1]
        new_y == snake_y + mv[2]
        new_head == <<new_x, new_y>>
        coll == _check_collision(new_x, new_y, snake_set)
        ate == new_x = food[1] /\ new_y = food[2]
        length == IF ate THEN snake_length + 1 ELSE snake_length
    IN  /\ ~AlreadyDead
        /\ ~StarvationReached(steps_since_last_fruit + 1)
        /\ ~coll[1]
        /\ steps' = steps + 1
        /\ snake_x' = new_x
        /\ snake_y' = new_y
        /\ current_direction' = mv[3]
        /\ snake_list' = MovedList(snake_list, new_head, ate, snake_length)
        /\ snake_set' = MovedSet(snake_set, snake_list, new_head, ate, snake_length)
        /\ snake_length' = length
        /\ IF ate
           THEN /\ food' \in _generate_food_position(cfg)
                /\ steps_since_last_fruit' = 0
                /\ eaten' = eaten + 1
                /\ since_food' = 0
           ELSE /\ food' = food
                /\ steps_since_last_fruit' = steps_since_last_fruit + 1
                /\ eaten' = eaten
                /\ since_food' = since_food + 1
        /\ ret' = [reward |-> IF ate THEN 1 ELSE 0, done |-> FALSE,
                   info |-> [score |-> length - 1, steps |-> steps + 1]]
        /\ UNCHANGED <<dead, reason>>

\* SnakeGame.step.
game_step(action) ==
    /\ dead \/ steps < MaxSteps
    /\ call' = [op |-> "step", action |-> action, was_dead |-> dead,
                was_length |-> snake_length]
    /\ \/ StepDead(action)
       \/ StepStarve(action)
       \/ StepCollide(action)
       \/ StepMove(action)

Step(action) ==
    /\ game_step(action)
    /\ UNCHANGED <<cfg, encVars, agentVars, epVars>>
    /\ UNCHANGED extVars

Next ==
    \/ Reset
    \/ \E action \in ActionNames : Step(action)

Spec == Init /\ [][Next]_vars

\* ------------------------------------------------- state encoders, keys
\* Python strings are modelled as sequences of one-character strings, so
\* that concatenation and prefixes are those of the real keys.  An attribute
\* holding None or a string is <<>> for None and <<s>> for the string s.
BASIC == <<"b", "a", "s", "i", "c">>

NAIVE == <<"n", "a", "i", "v", "e">>

NA == <<"N", "A">>

Digit(d) == <<"0", "1", "2", "3", "4", "5", "6", "7", "8", "9">>[d + 1]

RECURSIVE PyStrNat(_)
PyStrNat(n) ==
    IF n < 10 THEN <<Digit(n)>>
    ELSE PyStrNat(n \div 10) \o <<Digit(n % 10)>>

\* str(n) of a Python int.
PyStrInt(n) == IF n < 0 THEN <<"-">> \o PyStrNat(-n) ELSE PyStrNat(n)

\* repr(s) of a Python string without quotes or escapes in it.
PyReprStr(s) == <<"'">> \o s \o <<"'">>

RECURSIVE PyJoin(_)
PyJoin(items) ==
    IF Len(items) = 0 THEN <<>>
    ELSE IF Len(items) = 1 THEN items[1]
    ELSE items[1] \o <<",", " ">> \o PyJoin(Tail(items))

\* str(t) of a Python tuple whose elements are already rendered.
PyStrTuple(items) ==
    IF Len(items) = 1 THEN <<"(">> \o items[1] \o <<",", ")">>
    ELSE <<"(">> \o PyJoin(items) \o <<")">>

\* GameState(...) followed by __post_init__: the base string is
\* str((*position, surroundings, direction)), strategy_name defaults to
\* "basic", and the attribute _full_state_str does not exist yet.
GameState(distance, position, surroundings, fd, direction) ==
    [ distance |-> distance,
      position |-> position,
      surroundings |-> surroundings,
      food |-> fd,
      direction |-> direction,
      _state_str |->
          << PyStrTuple([i \in 1..Len(position) |-> PyReprStr(position[i])]
                        \o << PyReprStr(surroundings), PyStrInt(direction) >>) >>,
      strategy_name |-> BASIC,
      _full_state_str |-> <<>> ]

\* <<dist_x, dist_y, pos_x, pos_y>>
_get_food_position(snake_head, fd) ==
    LET dist_x == fd[1] - snake_head[1]
        dist_y == fd[2] - snake_head[2]
        pos_x == IF dist_x > 0 THEN <<"1">>
                 ELSE IF dist_x < 0 THEN <<"0">>
                 ELSE NA
        pos_y == IF dist_y > 0 THEN <<"3">>
                 ELSE IF dist_y < 0 THEN <<"2">>
                 ELSE NA
    IN  <<dist_x, dist_y, pos_x, pos_y>>

\* Variant of _get_surroundings: the right and bottom edges are tested
\* with >.
_get_surroundings_edge(snake_head, snake_body_set, display_width, display_height, block_size) ==
    LET adjacent_squares ==
            << <<snake_head[1] - block_size, snake_head[2]>>,
               <<snake_head[1] + block_size, snake_head[2]>>,
               <<snake_head[1], snake_head[2] - block_size>>,
               <<snake_head[1], snake_head[2] + block_size>> >>
        mark(square) ==
            IF square[1] < 0 \/ square[2] < 0 THEN "1"
            ELSE IF square[1] > display_width \/ square[2] > display_height
            THEN "1"
            ELSE IF square \in snake_body_set THEN "1"
            ELSE "0"
    IN  [i \in 1..4 |-> mark(adjacent_squares[i])]

\* Four characters, "1" for danger, for the cells left, right, up, down.
\* Variant of _get_surroundings: only the walls are marked as danger.
_get_surroundings_walls_only(snake_head, snake_body_set, display_width, display_height, block_size) ==
    LET adjacent_squares ==
            << <<snake_head[1] - block_size, snake_head[2]>>,
               <<snake_head[1] + block_size, snake_head[2]>>,
               <<snake_head[1], snake_head[2] - block_size>>,
               <<snake_head[1], snake_head[2] + block_size>> >>
        mark(square) ==
            IF square[1] < 0 \/ square[2] < 0 THEN "1"
            ELSE IF square[1] >= display_width \/ square[2] >= display_height
            THEN "1"
            ELSE "0"
    IN  [i \in 1..4 |-> mark(adjacent_squares[i])]

_get_surroundings(snake_head, snake_body_set, display_width, display_height, block_size) ==
    LET adjacent_squares ==
            << <<snake_head[1] - block_size, snake_head[2]>>,
               <<snake_head[1] + block_size, snake_head[2]>>,
               <<snake_head[1], snake_head[2] - block_size>>,
               <<snake_head[1], snake_head[2] + block_size>> >>
        mark(square) ==
            IF square[1] < 0 \/ square[2] < 0 THEN "1"
            ELSE IF square[1] >= display_width \/ square[2] >= display_height
            THEN "1"
            ELSE IF square \in snake_body_set THEN "1"
            ELSE "0"
    IN  [i \in 1..4 |-> mark(adjacent_squares[i])]

get_state_basic(direction, snake, fd, display_width, display_height, block_size) ==
    LET snake_head == snake[Len(snake)]
        snake_body_set == {snake[i] : i \in 1..(Len(snake) - 1)}
        fp == _get_food_position(snake_head, fd)
        surroundings == _get_surroundings(snake_head, snake_body_set,
                                          display_width, display_height,
                                          block_size)
    IN  [ GameState(<<fp[1], fp[2]>>, <<fp[3], fp[4]>>, surroundings, fd,
                    direction)
          EXCEPT !.strategy_name = BASIC ]

\* Variant of get_state_naive: the raw head coordinates are part of the
\* position tuple, and so of the key.
get_state_naive_with_head(direction, snake, fd, display_width, display_height, block_size) ==
    LET raw_food_x == PyStrInt(fd[1])
        raw_food_y == PyStrInt(fd[2])
        snake_head == snake[Len(snake)]
    IN  [ GameState(<<snake_head[1], snake_head[2]>>,
                    <<PyStrInt(snake_head[1]), PyStrInt(snake_head[2]),
                      raw_food_x, raw_food_y>>, NA, fd, direction)
          EXCEPT !.strategy_name = NAIVE ]

\* Variant of the naive encoder whose distance field is the head's offset
\* from the food.
get_state_naive_relative(direction, snake, fd, display_width, display_height, block_size) ==
    LET raw_food_x == PyStrInt(fd[1])
        raw_food_y == PyStrInt(fd[2])
        snake_head == snake[Len(snake)]
    IN  [ GameState(<<snake_head[1] - fd[1], snake_head[2] - fd[2]>>,
                    <<raw_food_x, raw_food_y>>, NA, fd, direction)
          EXCEPT !.strategy_name = NAIVE ]

get_state_naive(direction, snake, fd, display_width, display_height, block_size) ==
    LET raw_food_x == PyStrInt(fd[1])
        raw_food_y == PyStrInt(fd[2])
        snake_head == snake[Len(snake)]
    IN  [ GameState(<<snake_head[1], snake_head[2]>>,
                    <<raw_food_x, raw_food_y>>, NA, fd, direction)
          EXCEPT !.strategy_name = NAIVE ]

\* STATE_REPRESENTATIONS[strategy] applied as Agent._get_state applies it;
\* the configuration admits the strategies basic and naive.
_get_state(strategy, direction, snake, fd) ==
    IF strategy = "basic"
    THEN get_state_basic(direction, snake, fd, cfg.DISPLAY_WIDTH,
                         cfg.DISPLAY_HEIGHT, cfg.BLOCK_SIZE)
    ELSE get_state_naive(direction, snake, fd, cfg.DISPLAY_WIDTH,
                         cfg.DISPLAY_HEIGHT, cfg.BLOCK_SIZE)

\* Variant of _get_state_str: the key is the base string alone.
_get_state_str_no_prefix(state) ==
    IF state._full_state_str # <<>> THEN state._full_state_str[1]
    ELSE IF state._state_str # <<>> THEN state._state_str[1]
    ELSE PyStrTuple([i \in 1..Len(state.position) |-> PyReprStr(state.position[i])]
                    \o << PyReprStr(state.surroundings), PyStrInt(state.direction) >>)

\* The Q-table key of a state: the cached full string if there is one, else
\* strategy_name, ":" and the base string.
_get_state_str(state) ==
    IF state._full_state_str # <<>> THEN state._full_state_str[1]
    ELSE LET base_state_str ==
                 IF state._state_str # <<>> THEN state._state_str[1]
                 ELSE PyStrTuple([i \in 1..Len(state.position) |->
                                      PyReprStr(state.position[i])]
                                 \o << PyReprStr(state.surroundings),
                                       PyStrInt(state.direction) >>)
         IN  state.strategy_name \o <<":">> \o base_state_str

\* The state object after _get_state_str has run on it: both strings cached.
StateAfterKey(state) ==
    [ state EXCEPT
        !._state_str = IF state._full_state_str = <<>> /\ state._state_str = <<>>
                       THEN << PyStrTuple([i \in 1..Len(state.position) |->
                                               PyReprStr(state.position[i])]
                                          \o << PyReprStr(state.surroundings),
                                                PyStrInt(state.direction) >>) >>
                       ELSE state._state_str,
        !._full_state_str = << _get_state_str(state) >> ]

\* Board of the encoder inputs: 2x2 cells.
EncConfig ==
    [DISPLAY_WIDTH |-> 20, DISPLAY_HEIGHT |-> 20, BLOCK_SIZE |-> 10,
     MAX_STEPS_SINCE_LAST_FRUIT |-> 1]

EncCells ==
    { <<x * EncConfig.BLOCK_SIZE, y * EncConfig.BLOCK_SIZE>> :
        x \in 0..(EncConfig.DISPLAY_WIDTH \div EncConfig.BLOCK_SIZE - 1),
        y \in 0..(EncConfig.DISPLAY_HEIGHT \div EncConfig.BLOCK_SIZE - 1) }

Adjacent(a, b) ==
    \/ a[1] = b[1] /\ (a[2] - b[2] = EncConfig.BLOCK_SIZE \/ b[2] - a[2] = EncConfig.BLOCK_SIZE)
    \/ a[2] = b[2] /\ (a[1] - b[1] = EncConfig.BLOCK_SIZE \/ b[1] - a[1] = EncConfig.BLOCK_SIZE)

\* Snakes of n cells on the encoder board: distinct cells, each next to its
\* predecessor.
RECURSIVE EncSnakesOfLen(_)
EncSnakesOfLen(n) ==
    IF n = 1 THEN { <<c>> : c \in EncCells }
    ELSE { Append(sn, c) : sn \in EncSnakesOfLen(n - 1), c \in EncCells } \cap
         { sn \in Seq(EncCells) :
             /\ Len(sn) = n
             /\ Adjacent(sn[n - 1], sn[n])
             /\ \A i \in 1..(n - 1) : sn[i] # sn[n] }

EncSnakes == UNION { EncSnakesOfLen(n) : n \in 1..EncMaxLen }

\* Observations (direction, snake, food) given to Agent.act.
EncInputs ==
    [ direction : 0..3, snake : EncSnakes,
      food : _generate_food_position(EncConfig) ]

\* The agent of an idle game on the encoder board is about to encode two
\* observations.
InitEnc ==
    /\ cfg = EncConfig
    /\ snake_x = StartPosition(cfg)[1]
    /\ snake_y = StartPosition(cfg)[2]
    /\ snake_list = <<StartPosition(cfg)>>
    /\ snake_set = {StartPosition(cfg)}
    /\ snake_length = 1
    /\ current_direction = 1
    /\ food = <<0, 0>>
    /\ dead = FALSE
    /\ reason = None
    /\ steps = 0
    /\ steps_since_last_fruit = 0
    /\ ret = None
    /\ call = [op |-> "init", action |-> None, was_dead |-> FALSE, was_length |-> 0]
    /\ eaten = 0
    /\ since_food = 0
    /\ enc_in \in EncInputs \X EncInputs
    /\ enc_out = <<>>
    /\ AgentIdle
    /\ EpisodeIdle
    /\ ExtIdle

\* The first two lines of Agent.act for one observation under a strategy.
EncodeWith(strategy, in) ==
    LET state == _get_state(strategy, in.direction, in.snake, in.food)
    IN  [ strategy |-> strategy,
          key |-> _get_state_str(state),
          state |-> StateAfterKey(state) ]

\* Each observation is encoded by an agent configured with its strategy.
Encode(s1, s2) ==
    /\ enc_out = <<>>
    /\ enc_out' = << EncodeWith(s1, enc_in[1]), EncodeWith(s2, enc_in[2]) >>
    /\ UNCHANGED <<cfg, gameVars, ret, call, eaten, since_food, enc_in,
                   agentVars, epVars>>
    /\ UNCHANGED extVars

NextEnc == \E s1, s2 \in {"basic", "naive"} : Encode(s1, s2)

SpecEnc == InitEnc /\ [][NextEnc]_vars

\* ------------------------------------------------------ exact arithmetic

\* Q-values, rewards and rates are exact fractions <<numerator, denominator>>
\* in lowest terms with a positive denominator.
Abs(n) == IF n < 0 THEN -n ELSE n

RECURSIVE GCD(_, _)
GCD(a, b) == IF b = 0 THEN a ELSE GCD(b, a % b)

Frac(n, d) ==
    LET g == GCD(Abs(n), d)
    IN  IF n = 0 THEN <<0, 1>> ELSE <<n \div g, d \div g>>

R0 == <<0, 1>>

R1 == <<1, 1>>

RInt(n) == <<n, 1>>

RAdd(a, b) ==
    LET l == (a[2] \div GCD(a[2], b[2])) * b[2]
    IN  Frac(a[1] * (l \div a[2]) + b[1] * (l \div b[2]), l)

RNeg(a) == <<-a[1], a[2]>>

RSub(a, b) == RAdd(a, RNeg(b))

RMul(a, b) ==
    LET g1 == GCD(Abs(a[1]), b[2])
        g2 == GCD(Abs(b[1]), a[2])
    IN  IF a[1] = 0 \/ b[1] = 0 THEN R0
        ELSE <<(a[1] \div g1) * (b[1] \div g2), (a[2] \div g2) * (b[2] \div g1)>>

RLess(a, b) == RSub(a, b)[1] < 0

\* max(row)
RMax(row) ==
    CHOOSE m \in {row[i] : i \in DOMAIN row} :
        \A i \in DOMAIN row : ~RLess(m, row[i])

\* -------------------------------------------------------------- the agent

\* cfg.LEARNING_RATE and cfg.DISCOUNT of the configuration under study.
LEARNING_RATE == <<1, 4>>

DISCOUNT == <<1, 2>>

\* Values random.uniform(0, 1) can return.
RandDraws == {R0, <<1, 2>>}

\* list(self.actions.keys())
ActionKeys == 0..(Len(Actions) - 1)

\* Variant of the fresh row: optimistic initial values.
ZeroRowOnes == [i \in 1..Len(Actions) |-> R1]

\* [0.0] * len(self.actions)
ZeroRow == [i \in 1..Len(Actions) |-> R0]

\* if state_str not in self.qvalues: self.qvalues[state_str] = [0.0] * 4
WithRow(q, state_str) ==
    IF state_str \in DOMAIN q THEN q
    ELSE [k \in DOMAIN q \cup {state_str} |->
              IF k = state_str THEN ZeroRow ELSE q[k]]

\* self.qvalues[state_str][action_key] = value
Put(q, state_str, action_key, value) ==
    [q EXCEPT ![state_str] = [@ EXCEPT ![action_key + 1] = value]]

\* Variant of the greedy choice: ties go to the highest index.
ArgMaxLast(state_scores) ==
    CHOOSE i \in ActionKeys :
        /\ state_scores[i + 1] = RMax(state_scores)
        /\ \A j \in ActionKeys : state_scores[j + 1] = RMax(state_scores) => j <= i

\* state_scores.index(max(state_scores))
ArgMax(state_scores) ==
    CHOOSE i \in ActionKeys :
        /\ state_scores[i + 1] = RMax(state_scores)
        /\ \A j \in 0..(i - 1) : state_scores[j + 1] # RMax(state_scores)

\* Variant of Agent.act: the (state, action) pair is not recorded.
act_unrecorded(direction, snake, fd, rand, pick) ==
    LET state == _get_state(state_strategy, direction, snake, fd)
        state_str == _get_state_str(state)
        q1 == WithRow(qvalues, state_str)
        action_key == IF RLess(rand, epsilon) THEN pick
                      ELSE ArgMax(q1[state_str])
    IN  /\ qvalues' = q1
        /\ history' = history
        /\ aret' = Actions[action_key + 1]
        /\ acall' = [op |-> "act", key |-> state_str, reason |-> None,
                     explored |-> RLess(rand, epsilon), after |-> acall.op]
        /\ q_before' = qvalues
        /\ calls' = calls + 1
        /\ UNCHANGED <<state_strategy, epsilon, q_terminal>>

\* Agent.act: encode, create the row if absent, choose, record, return the
\* action's name.  rand is the uniform draw, pick the result of random.choices.
\* Variant of act that records the greedy action also when it explores.
act_records_greedy(direction, snake, fd, rand, pick) ==
    LET state == _get_state(state_strategy, direction, snake, fd)
        state_str == _get_state_str(state)
        q1 == WithRow(qvalues, state_str)
        action_key == IF RLess(rand, epsilon) THEN pick
                      ELSE ArgMax(q1[state_str])
    IN  /\ qvalues' = q1
        /\ history' = Append(history, [state |-> StateAfterKey(state),
                                       action |-> ArgMax(q1[state_str])])
        /\ aret' = Actions[action_key + 1]
        /\ acall' = [op |-> "act", key |-> state_str, reason |-> None,
                     explored |-> RLess(rand, epsilon), after |-> acall.op]
        /\ q_before' = qvalues
        /\ calls' = calls + 1
        /\ UNCHANGED <<state_strategy, epsilon, q_terminal>>

act(direction, snake, fd, rand, pick) ==
    LET state == _get_state(state_strategy, direction, snake, fd)
        state_str == _get_state_str(state)
        q1 == WithRow(qvalues, state_str)
        action_key == IF RLess(rand, epsilon) THEN pick
                      ELSE ArgMax(q1[state_str])
    IN  /\ qvalues' = q1
        /\ history' = Append(history, [state |-> StateAfterKey(state),
                                       action |-> action_key])
        /\ aret' = Actions[action_key + 1]
        /\ acall' = [op |-> "act", key |-> state_str, reason |-> None,
                     explored |-> RLess(rand, epsilon), after |-> acall.op]
        /\ q_before' = qvalues
        /\ calls' = calls + 1
        /\ UNCHANGED <<state_strategy, epsilon, q_terminal>>

\* if reason: (None and the empty string are false)
Truthy(rsn) == rsn # None /\ rsn # ""

\* -3 when the snake took too many steps, else -30.
TerminalReward(rsn) == IF rsn = "Steps" THEN RInt(-3) ELSE RInt(-30)

\* (1 - learning_rate) * old + learning_rate * target
Bellman(old, target) ==
    RAdd(RMul(RSub(R1, LEARNING_RATE), old), RMul(LEARNING_RATE, target))

\* Variant of the terminal step: the value of the last state is bootstrapped.
TerminalStepBootstrapped(q, hist, rsn) ==
    IF Truthy(rsn) /\ Len(hist) > 0
    THEN LET terminal_state == hist[Len(hist)].state
             terminal_action == hist[Len(hist)].action
             state_str == _get_state_str(terminal_state)
             q1 == WithRow(q, state_str)
         IN  Put(q1, state_str, terminal_action,
                 Bellman(q1[state_str][terminal_action + 1],
                         RAdd(TerminalReward(rsn),
                              RMul(DISCOUNT, RMax(q1[state_str])))))
    ELSE q

\* The terminal step of update: the last (state, action) gets the penalty,
\* with no future value.
TerminalStep(q, hist, rsn) ==
    IF Truthy(rsn) /\ Len(hist) > 0
    THEN LET terminal_state == hist[Len(hist)].state
             terminal_action == hist[Len(hist)].action
             state_str == _get_state_str(terminal_state)
             q1 == WithRow(q, state_str)
         IN  Put(q1, state_str, terminal_action,
                 Bellman(q1[state_str][terminal_action + 1],
                         TerminalReward(rsn)))
    ELSE q

\* The shaped reward of the transition s0 -> s1.
ShapedReward(s0, s1) ==
    LET x1 == s0.distance[1]
        y1 == s0.distance[2]
        x2 == s1.distance[1]
        y2 == s1.distance[2]
    IN  IF s0.food # s1.food THEN RInt(10)
        ELSE IF Abs(x1) > Abs(x2) \/ Abs(y1) > Abs(y2) THEN <<1, 1000>>
        ELSE <<-1, 1000>>

\* One pass of the loop body for the entries h0 = history[i], h1 = history[i+1].
InteriorStep(q, h0, h1) ==
    LET s0 == h0.state
        a0 == h0.action
        s1 == h1.state
        reward == ShapedReward(s0, s1)
        state_str == _get_state_str(s0)
        new_state_str == _get_state_str(s1)
        q1 == WithRow(WithRow(q, state_str), new_state_str)
    IN  Put(q1, state_str, a0,
            Bellman(q1[state_str][a0 + 1],
                    RAdd(reward, RMul(DISCOUNT, RMax(q1[new_state_str])))))

\* Variant of the loop: the pairs are processed from the last to the first.
RECURSIVE InteriorLoopBackward(_, _, _)
InteriorLoopBackward(q, hist, i) ==
    IF i > Len(hist) - 1 THEN q
    ELSE InteriorStep(InteriorLoopBackward(q, hist, i + 1), hist[i], hist[i + 1])

\* for i in range(history_len - 1), from entry i (1-based) on.
RECURSIVE InteriorLoop(_, _, _)
InteriorLoop(q, hist, i) ==
    IF i > Len(hist) - 1 THEN q
    ELSE InteriorLoop(InteriorStep(q, hist[i], hist[i + 1]), hist, i + 1)

\* total_reward as returned by update.
RECURSIVE ShapedTotal(_, _)
ShapedTotal(hist, i) ==
    IF i > Len(hist) - 1 THEN R0
    ELSE RAdd(ShapedReward(hist[i].state, hist[i + 1].state),
              ShapedTotal(hist, i + 1))

\* Variant of the returned value: the terminal penalty is left out.
TotalRewardInteriorOnly(hist, rsn) ==
    IF hist = <<>> THEN R0 ELSE ShapedTotal(hist, 1)

\* total_reward: 0.0 for an empty history, else the terminal penalty, if any,
\* plus the rewards of the loop.
TotalReward(hist, rsn) ==
    IF hist = <<>> THEN R0
    ELSE RAdd(IF Truthy(rsn) THEN TerminalReward(rsn) ELSE R0,
              ShapedTotal(hist, 1))

\* Every Q-value of the table has a denominator of at most MaxDen.
Precise(q) == \A k \in DOMAIN q : \A i \in DOMAIN q[k] : q[k][i][2] <= MaxDen

\* Agent.update: nothing for an empty history; else the terminal step, then
\* the loop over the consecutive pairs.  self.history is not assigned.
update(rsn) ==
    /\ q_before' = qvalues
    /\ q_terminal' = IF history = <<>> THEN qvalues
                     ELSE TerminalStep(qvalues, history, rsn)
    /\ qvalues' = IF history = <<>> THEN qvalues
                  ELSE InteriorLoop(TerminalStep(qvalues, history, rsn),
                                    history, 1)
    /\ aret' = TotalReward(history, rsn)
    /\ acall' = [op |-> "update", key |-> <<>>, reason |-> rsn,
                 explored |-> FALSE, after |-> acall.op]
    /\ calls' = calls + 1
    /\ UNCHANGED <<state_strategy, epsilon, history>>

\* Variant of Agent.reset: the history is kept.
reset_keeps_history ==
    /\ history' = history
    /\ aret' = None
    /\ q_before' = qvalues
    /\ acall' = [op |-> "reset", key |-> <<>>, reason |-> None,
                 explored |-> FALSE, after |-> acall.op]
    /\ UNCHANGED <<state_strategy, epsilon, qvalues, q_terminal, calls>>

\* Agent.reset: self.history = []
reset ==
    /\ history' = <<>>
    /\ aret' = None
    /\ q_before' = qvalues
    /\ acall' = [op |-> "reset", key |-> <<>>, reason |-> None,
                 explored |-> FALSE, after |-> acall.op]
    /\ UNCHANGED <<state_strategy, epsilon, qvalues, q_terminal, calls>>

\* Observations handed to act when the agent is driven call by call: a
\* one-cell snake on the top row with the food to its right, under it, and to
\* its left after a respawn.
AgentObs ==
    { [direction |-> 1, snake |-> << <<0, 0>> >>, food |-> <<10, 0>>],
      [direction |-> 1, snake |-> << <<10, 0>> >>, food |-> <<10, 0>>],
      [direction |-> 1, snake |-> << <<10, 0>> >>, food |-> <<0, 0>>] }

\* The termination reasons run_episode can pass to update.
Reasons == {None, "Screen", "Tail", "Steps"}

\* Agent.load_qvalues: an empty table when there is no file, else the saved
\* table; here one saved earlier with a row for the state "food to the right".
SavedTables(strategy) ==
    LET state == _get_state(strategy, 1, << <<0, 0>> >>, <<10, 0>>)
    IN  { <<>>,
          [k \in {_get_state_str(state)} |->
               <<R0, RInt(1), RInt(1), RInt(-1)>>] }

\* Agent.__init__ for a game on the encoder board, with cfg.EPSILON = 0.
InitAgent ==
    /\ cfg = EncConfig
    /\ snake_x = StartPosition(cfg)[1]
    /\ snake_y = StartPosition(cfg)[2]
    /\ snake_list = <<StartPosition(cfg)>>
    /\ snake_set = {StartPosition(cfg)}
    /\ snake_length = 1
    /\ current_direction = 1
    /\ food = <<0, 0>>
    /\ dead = FALSE
    /\ reason = None
    /\ steps = 0
    /\ steps_since_last_fruit = 0
    /\ ret = None
    /\ call = [op |-> "init", action |-> None, was_dead |-> FALSE, was_length |-> 0]
    /\ eaten = 0
    /\ since_food = 0
    /\ enc_in = <<>>
    /\ enc_out = <<>>
    /\ state_strategy \in {"basic", "naive"}
    /\ epsilon = R0
    /\ qvalues \in SavedTables(state_strategy)
    /\ history = <<>>
    /\ q_before = qvalues
    /\ q_terminal = qvalues
    /\ acall = [op |-> "init", key |-> <<>>, reason |-> None, explored |-> FALSE,
                after |-> "none"]
    /\ aret = None
    /\ calls = 0
    /\ EpisodeIdle
    /\ ExtIdle

Act(obs, rand, pick) ==
    /\ calls < MaxCalls
    /\ act(obs.direction, obs.snake, obs.food, rand, pick)
    /\ UNCHANGED <<cfg, gameVars, ret, call, eaten, since_food, encVars,
                   epVars>>
    /\ UNCHANGED extVars

Update(rsn) ==
    /\ calls < MaxCalls
    /\ Precise(qvalues)
    /\ update(rsn)
    /\ UNCHANGED <<cfg, gameVars, ret, call, eaten, since_food, encVars,
                   epVars>>
    /\ UNCHANGED extVars

ResetAgent ==
    /\ reset
    /\ UNCHANGED <<cfg, gameVars, ret, call, eaten, since_food, encVars,
                   epVars>>
    /\ UNCHANGED extVars

NextAgent ==
    \/ \E obs \in AgentObs, rand \in RandDraws, pick \in ActionKeys :
           Act(obs, rand, pick)
    \/ \E rsn \in Reasons : Update(rsn)
    \/ ResetAgent

SpecAgent == InitAgent /\ [][NextAgent]_vars

\* ------------------------------------------------------------ run_episode

\* Board of the episodes: 2x2 cells, starvation after MaxStarve steps.
EpConfig == [EncConfig EXCEPT !.MAX_STEPS_SINCE_LAST_FRUIT = MaxStarve]

\* The two callers of run_episode: evaluate (no updates, epsilon set to 0) and
\* train (updates, epsilon = cfg.EPSILON * 0.8 = 0.016 before the first
\* episode; the later values of train's schedule are positive and smaller,
\* and select the same branch of act for the draws of RandDraws).
Callers == { [update_qvalues |-> FALSE, epsilon |-> R0],
             [update_qvalues |-> TRUE, epsilon |-> <<2, 125>>] }

\* train or evaluate has constructed the agent and is about to call
\* run_episode for the first time.
InitEpisode ==
    /\ cfg = EpConfig
    /\ snake_x = StartPosition(cfg)[1]
    /\ snake_y = StartPosition(cfg)[2]
    /\ snake_list = <<StartPosition(cfg)>>
    /\ snake_set = {StartPosition(cfg)}
    /\ snake_length = 1
    /\ current_direction = 1
    /\ food = <<0, 0>>
    /\ dead = FALSE
    /\ reason = None
    /\ steps = 0
    /\ steps_since_last_fruit = 0
    /\ ret = None
    /\ call = [op |-> "init", action |-> None, was_dead |-> FALSE, was_length |-> 0]
    /\ eaten = 0
    /\ since_food = 0
    /\ enc_in = <<>>
    /\ enc_out = <<>>
    /\ state_strategy \in {"basic", "naive"}
    /\ \E c \in Callers : update_qvalues = c.update_qvalues /\ epsilon = c.epsilon
    /\ qvalues \in SavedTables(state_strategy)
    /\ history = <<>>
    /\ q_before = qvalues
    /\ q_terminal = qvalues
    /\ acall = [op |-> "init", key |-> <<>>, reason |-> None, explored |-> FALSE,
                after |-> "none"]
    /\ aret = None
    /\ calls = 0
    /\ pc = "start"
    /\ q_first = qvalues
    /\ act_log = <<>>
    /\ ate_log = <<>>
    /\ episodes = 0
    /\ ExtIdle

\* game = SnakeGame(); agent.reset()
EpStart ==
    /\ pc = "start"
    /\ episodes < MaxEpisodes
    /\ game_reset
    /\ reset
    /\ act_log' = <<>>
    /\ ate_log' = <<>>
    /\ pc' = "act"
    /\ UNCHANGED <<cfg, encVars, update_qvalues, q_first, episodes>>
    /\ UNCHANGED extVars

\* observation = game.get_observation(); action = agent.act(...)
EpAct(rand, pick) ==
    /\ pc = "act"
    /\ calls < MaxCalls
    /\ act(current_direction, snake_list, food, rand, pick)
    /\ pc' = "step"
    /\ UNCHANGED <<cfg, gameVars, ret, call, eaten, since_food, encVars,
                   update_qvalues, q_first, act_log, ate_log, episodes>>
    /\ UNCHANGED extVars

\* game.step(action); the loop goes on unless the game is over.
EpStep ==
    /\ pc = "step"
    /\ game_step(aret)
    /\ act_log' = Append(act_log, aret)
    /\ ate_log' = Append(ate_log, eaten' > eaten)
    /\ pc' = IF dead' THEN "update" ELSE "act"
    /\ UNCHANGED <<cfg, encVars, agentVars, update_qvalues, q_first, episodes>>
    /\ UNCHANGED extVars

\* Variant of the test of run_episode's argument: the table is always updated.
UpdateRequestedAlways == TRUE

\* if update_qvalues:
UpdateRequested == update_qvalues

\* The end of run_episode: agent.update(game.reason) in training mode only,
\* then the return to the caller, which goes on to the next episode.
EpEnd ==
    /\ pc = "update"
    /\ IF UpdateRequested
       THEN calls < MaxCalls /\ Precise(qvalues) /\ update(reason)
       ELSE UNCHANGED agentVars
    /\ pc' = "start"
    /\ episodes' = episodes + 1
    /\ UNCHANGED <<cfg, gameVars, ret, call, eaten, since_food, encVars,
                   update_qvalues, q_first, act_log, ate_log>>
    /\ UNCHANGED extVars

NextEpisode ==
    \/ EpStart
    \/ \E rand \in RandDraws, pick \in ActionKeys : EpAct(rand, pick)
    \/ EpStep
    \/ EpEnd

SpecEpisode == InitEpisode /\ [][NextEpisode]_vars

\* ------------------------------------------- a caller of SnakeGame itself
\* The strings a caller can hand to step: the four actions and one more.
CallerActions == ActionNames \cup {"jump"}

\* One board of five by five cells.
CallerConfigs ==
    { c \in Configs : c.DISPLAY_WIDTH = 10
                       /\ c.MAX_STEPS_SINCE_LAST_FRUIT = MaxStarve }

\* SnakeGame.get_observation: the dict it builds from the game's fields.
get_observation ==
    [snake |-> snake_list, food |-> food, direction |-> current_direction,
     length |-> snake_length, steps |-> steps]

\* The dict a caller holds after step has run.  Its "snake" entry is the
\* game's own list object, which step appends to and deletes from in place.
Held(h) ==
    IF h = <<>> THEN h ELSE << [h[1] EXCEPT !.snake = snake_list'] >>

\* step on a live game, not at the starvation threshold, with a string
\* that is not a key of action_map: the counters have been incremented and
\* the lookup raises KeyError.
StepKeyError(action) ==
    /\ ~AlreadyDead
    /\ ~StarvationReached(steps_since_last_fruit + 1)
    /\ action \notin ActionNames
    /\ steps' = steps + 1
    /\ steps_since_last_fruit' = steps_since_last_fruit + 1
    /\ since_food' = since_food + 1
    /\ exc' = "KeyError"
    /\ UNCHANGED <<snake_x, snake_y, snake_list, snake_set, snake_length,
                   current_direction, food, dead, reason, eaten, ret>>

\* SnakeGame.step with any string as its argument.
step_any(action) ==
    /\ dead \/ steps < MaxSteps
    /\ call' = [op |-> "step", action |-> action, was_dead |-> dead,
                was_length |-> snake_length]
    /\ \/ StepDead(action) /\ exc' = None
       \/ StepStarve(action) /\ exc' = None
       \/ action \in ActionNames /\ StepCollide(action) /\ exc' = None
       \/ action \in ActionNames /\ StepMove(action) /\ exc' = None
       \/ StepKeyError(action)

InitCaller ==
    /\ Init
    /\ cfg \in CallerConfigs

\* obs = game.get_observation(), by a caller that holds none yet.
CallerObserve ==
    /\ held = <<>>
    /\ held' = << get_observation >>
    /\ held_made' = get_observation
    /\ exc' = None
    /\ call' = [op |-> "get_observation", action |-> None, was_dead |-> dead,
                was_length |-> snake_length]
    /\ UNCHANGED <<cfg, gameVars, ret, eaten, since_food, encVars,
                   agentVars, epVars, fileVars, trainVars>>

\* game.step(action), the returned observation dropped.
CallerStep(action) ==
    /\ step_any(action)
    /\ held' = Held(held)
    /\ UNCHANGED <<cfg, held_made, encVars, agentVars, epVars, fileVars,
                   trainVars>>

\* game.reset(), once the game is over; the caller drops what it held.
CallerReset ==
    /\ dead
    /\ game_reset
    /\ held' = <<>>
    /\ held_made' = <<>>
    /\ exc' = None
    /\ UNCHANGED <<cfg, encVars, agentVars, epVars, fileVars,
                   trainVars>>

NextCaller ==
    \/ CallerObserve
    \/ \E action \in CallerActions : CallerStep(action)
    \/ CallerReset

SpecCaller == InitCaller /\ [][NextCaller]_vars

\* ----------------------------------------------------------- load_qvalues
\* The tokens a persisted file is made of: punctuation, one string literal,
\* one number literal and null.
JsonTokens == {"{", "}", "[", "]", ":", ",", "\"k\"", "0", "null"}

Tok(t, i) == IF i <= Len(t) THEN t[i] ELSE "eof"

\* A parse that raises json.JSONDecodeError.
JsonFail == <<FALSE, <<>>, 0>>

\* The dict d after d[k] = v: a key met again keeps its last value.
JsonPut(d, k, v) == [x \in DOMAIN d \cup {k} |-> IF x = k THEN v ELSE d[x]]

RECURSIVE JsonValue(_, _)
RECURSIVE JsonElems(_, _, _)
RECURSIVE JsonMembers(_, _, _)

\* The JSON value that starts at token i: <<parsed, value, next index>>.
\* Values are <<"num", 0>>, <<"str", s>>, <<"null">>, <<"arr", sequence>>
\* and <<"obj", function from keys to values>>.
JsonValue(t, i) ==
    CASE Tok(t, i) = "0" -> <<TRUE, <<"num", 0>>, i + 1>>
      [] Tok(t, i) = "\"k\"" -> <<TRUE, <<"str", "k">>, i + 1>>
      [] Tok(t, i) = "null" -> <<TRUE, <<"null">>, i + 1>>
      [] Tok(t, i) = "[" ->
            IF Tok(t, i + 1) = "]" THEN <<TRUE, <<"arr", <<>>>>, i + 2>>
            ELSE JsonElems(t, i + 1, <<>>)
      [] Tok(t, i) = "{" ->
            IF Tok(t, i + 1) = "}" THEN <<TRUE, <<"obj", <<>>>>, i + 2>>
            ELSE JsonMembers(t, i + 1, <<>>)
      [] OTHER -> JsonFail

\* The rest of an array from the element that starts at token i.
JsonElems(t, i, acc) ==
    LET v == JsonValue(t, i)
    IN  IF ~v[1] THEN JsonFail
        ELSE CASE Tok(t, v[3]) = "," -> JsonElems(t, v[3] + 1, Append(acc, v[2]))
               [] Tok(t, v[3]) = "]" -> <<TRUE, <<"arr", Append(acc, v[2])>>, v[3] + 1>>
               [] OTHER -> JsonFail

\* The rest of an object from the member that starts at token i.
JsonMembers(t, i, acc) ==
    IF Tok(t, i) # "\"k\"" \/ Tok(t, i + 1) # ":" THEN JsonFail
    ELSE LET v == JsonValue(t, i + 2)
         IN  IF ~v[1] THEN JsonFail
             ELSE CASE Tok(t, v[3]) = "," ->
                          JsonMembers(t, v[3] + 1, JsonPut(acc, "k", v[2]))
                    [] Tok(t, v[3]) = "}" ->
                          <<TRUE, <<"obj", JsonPut(acc, "k", v[2])>>, v[3] + 1>>
                    [] OTHER -> JsonFail

\* json.load: <<value>> for a file that is one JSON value and nothing more,
\* <<>> when it raises json.JSONDecodeError.
json_load(t) ==
    LET v == JsonValue(t, 1)
    IN  IF v[1] /\ v[3] = Len(t) + 1 THEN <<v[2]>> ELSE <<>>

RECURSIVE TokenSeqs(_)
\* Every sequence of at most n tokens.
TokenSeqs(n) ==
    IF n = 0 THEN {<<>>}
    ELSE LET shorter == TokenSeqs(n - 1)
         IN  shorter \cup { Append(q, x) : q \in shorter, x \in JsonTokens }

\* A file save_qvalues has written: one state with a row of four values.
TableFile ==
    <<"{", "\"k\"", ":", "[", "0", ",", "0", ",", "0", ",", "0", "]", "}">>

\* Files that are JSON but hold no table: a row that is a number, a row of
\* one value.
ScalarRowFile == <<"{", "\"k\"", ":", "0", "}">>

ShortRowFile == <<"{", "\"k\"", ":", "[", "0", "]", "}">>

\* The contents the file at DEFAULT_QVALUES_PATH can have.
Files == TokenSeqs(MaxTokens) \cup {TableFile, ScalarRowFile, ShortRowFile}

\* The agent is being constructed; the file exists or does not.
InitLoad ==
    /\ cfg \in Configs
    /\ cfg.DISPLAY_WIDTH = 10
    /\ cfg.MAX_STEPS_SINCE_LAST_FRUIT = 1
    /\ snake_x = StartPosition(cfg)[1]
    /\ snake_y = StartPosition(cfg)[2]
    /\ snake_list = <<StartPosition(cfg)>>
    /\ snake_set = {StartPosition(cfg)}
    /\ snake_length = 1
    /\ current_direction = 1
    /\ food = <<0, 0>>
    /\ dead = FALSE
    /\ reason = None
    /\ steps = 0
    /\ steps_since_last_fruit = 0
    /\ ret = None
    /\ call = [op |-> "init", action |-> None, was_dead |-> FALSE, was_length |-> 0]
    /\ eaten = 0
    /\ since_food = 0
    /\ enc_in = <<>>
    /\ enc_out = <<>>
    /\ AgentIdle
    /\ EpisodeIdle
    /\ exc = None
    /\ held = <<>>
    /\ held_made = <<>>
    /\ source \in {<<>>} \cup { <<f>> : f \in Files }
    /\ load_ret = <<>>
    /\ stored = <<>>
    /\ total_steps = 0
    /\ high_score = 0
    /\ game_count = 0

\* Agent.load_qvalues.
load_qvalues ==
    IF source = <<>>
    THEN /\ load_ret' = << <<"obj", <<>>>> >>
         /\ exc' = None
    ELSE /\ load_ret' = json_load(source[1])
         /\ exc' = IF json_load(source[1]) = <<>> THEN "JSONDecodeError" ELSE None

\* self.qvalues = self.load_qvalues() in Agent.__init__, run once.
Load ==
    /\ acall.op = "none"
    /\ load_qvalues
    /\ acall' = [acall EXCEPT !.op = "load_qvalues"]
    /\ UNCHANGED <<cfg, gameVars, ret, call, eaten, since_food, encVars,
                   state_strategy, epsilon, qvalues, history, q_before,
                   q_terminal, aret, calls, epVars, held, held_made, source,
                   stored, trainVars>>

NextLoad == Load

SpecLoad == InitLoad /\ [][NextLoad]_vars

\* ------------------------------------------------------------------ train
\* The configurations of the training runs: the board of the episodes,
\* MAX_STEPS None (<<>>) or set (<<m>>), a save every second game.
TrainConfigs ==
    { [DISPLAY_WIDTH |-> EpConfig.DISPLAY_WIDTH,
       DISPLAY_HEIGHT |-> EpConfig.DISPLAY_HEIGHT,
       BLOCK_SIZE |-> EpConfig.BLOCK_SIZE,
       MAX_STEPS_SINCE_LAST_FRUIT |-> EpConfig.MAX_STEPS_SINCE_LAST_FRUIT,
       MAX_STEPS |-> m, QVALUES_SAVE_INTERVAL |-> 2, EPSILON |-> <<1, 50>>] :
      m \in {<<>>, <<1>>, <<3>>} }

\* What json.dump(self.qvalues, f) leaves in a file it has finished.
Dumped(q) == [complete |-> TRUE, table |-> q]

\* A file opened for writing and not written to the end.
Truncated == [complete |-> FALSE, table |-> <<>>]

\* The files after a write to the default path.
WithDefault(st, content) == [st EXCEPT !.default = <<content>>]

\* The files after a write to HIGHSCORES_DIR/highscore{n}.json.
WithHighscore(st, n, content) ==
    [st EXCEPT !.highscore =
        [i \in DOMAIN st.highscore \cup {n} |->
            IF i = n THEN content ELSE st.highscore[i]]]

\* Variant of save_qvalues that writes nothing.
save_qvalues_skipped(st, q) == st

\* Agent.save_qvalues() with the default path.
save_qvalues(st, q) == WithDefault(st, Dumped(q))

\* max(0, cfg.EPSILON * (0.8 - (total_steps / cfg.MAX_STEPS)**4))
Schedule(total, max_steps) ==
    LET r == Frac(total, max_steps)
        r4 == RMul(RMul(r, r), RMul(r, r))
        e == RMul(cfg.EPSILON, RSub(<<4, 5>>, r4))
    IN  IF RLess(e, R0) THEN R0 ELSE e

\* train has constructed the agent, which has read the default file, and
\* is about to enter its loop.
InitTrain ==
    /\ cfg \in TrainConfigs
    /\ snake_x = StartPosition(cfg)[1]
    /\ snake_y = StartPosition(cfg)[2]
    /\ snake_list = <<StartPosition(cfg)>>
    /\ snake_set = {StartPosition(cfg)}
    /\ snake_length = 1
    /\ current_direction = 1
    /\ food = <<0, 0>>
    /\ dead = FALSE
    /\ reason = None
    /\ steps = 0
    /\ steps_since_last_fruit = 0
    /\ ret = None
    /\ call = [op |-> "init", action |-> None, was_dead |-> FALSE, was_length |-> 0]
    /\ eaten = 0
    /\ since_food = 0
    /\ enc_in = <<>>
    /\ enc_out = <<>>
    /\ state_strategy = "basic"
    /\ epsilon = cfg.EPSILON
    /\ qvalues \in SavedTables(state_strategy)
    /\ history = <<>>
    /\ q_before = qvalues
    /\ q_terminal = qvalues
    /\ acall = [op |-> "init", key |-> <<>>, reason |-> None, explored |-> FALSE,
                after |-> "none"]
    /\ aret = None
    /\ calls = 0
    /\ pc = "head"
    /\ update_qvalues = TRUE
    /\ q_first = qvalues
    /\ act_log = <<>>
    /\ ate_log = <<>>
    /\ episodes = 0
    /\ exc = None
    /\ held = <<>>
    /\ held_made = <<>>
    /\ source = <<>>
    /\ load_ret = <<>>
    /\ stored = [default |-> IF qvalues = <<>> THEN <<>> ELSE <<Dumped(qvalues)>>,
                 highscore |-> <<>>]
    /\ total_steps = 0
    /\ high_score = 0
    /\ game_count = 0

\* The top of the loop: the next game_count and the epsilon of the game;
\* the division raises TypeError when MAX_STEPS is None.
TrHead ==
    /\ pc = "head"
    /\ episodes < MaxEpisodes
    /\ game_count' = game_count + 1
    /\ IF cfg.MAX_STEPS = <<>>
       THEN /\ exc' = "TypeError"
            /\ pc' = "finally"
            /\ UNCHANGED epsilon
       ELSE /\ epsilon' = Schedule(total_steps, cfg.MAX_STEPS[1])
            /\ pc' = "start"
            /\ UNCHANGED exc
    /\ UNCHANGED <<cfg, gameVars, ret, call, eaten, since_food, encVars,
                   state_strategy, qvalues, history, q_before, q_terminal,
                   acall, aret, calls, update_qvalues, q_first, act_log, ate_log,
                   episodes, held, held_made, fileVars, total_steps,
                   high_score>>

\* The end of run_episode in train: agent.update(game.reason) and the
\* return of score, reason and steps.
TrUpdate ==
    /\ pc = "update"
    /\ calls < MaxCalls
    /\ Precise(qvalues)
    /\ update(reason)
    /\ pc' = "after"
    /\ episodes' = episodes + 1
    /\ UNCHANGED <<cfg, gameVars, ret, call, eaten, since_food, encVars,
                   update_qvalues, q_first, act_log, ate_log>>
    /\ UNCHANGED extVars

\* total_steps += game_steps, then the test of the step limit.
TrAfter ==
    /\ pc = "after"
    /\ total_steps' = total_steps + steps
    /\ pc' = IF cfg.MAX_STEPS # <<>> /\ total_steps + steps >= cfg.MAX_STEPS[1]
             THEN "finally" ELSE "high"
    /\ UNCHANGED <<cfg, gameVars, ret, call, eaten, since_food, encVars,
                   agentVars, update_qvalues, q_first, act_log, ate_log, episodes,
                   callerVars, fileVars, high_score, game_count>>

\* if score > high_score: the new high score and its file.
TrHigh ==
    /\ pc = "high"
    /\ IF snake_length - 1 > high_score
       THEN /\ high_score' = snake_length - 1
            /\ stored' = WithHighscore(stored, snake_length - 1, Dumped(qvalues))
       ELSE UNCHANGED <<high_score, stored>>
    /\ pc' = "periodic"
    /\ UNCHANGED <<cfg, gameVars, ret, call, eaten, since_food, encVars,
                   agentVars, update_qvalues, q_first, act_log, ate_log, episodes,
                   callerVars, source, load_ret, total_steps, game_count>>

\* if game_count % cfg.QVALUES_SAVE_INTERVAL == 0: agent.save_qvalues()
TrPeriodic ==
    /\ pc = "periodic"
    /\ stored' = IF game_count % cfg.QVALUES_SAVE_INTERVAL = 0
                 THEN save_qvalues(stored, qvalues) ELSE stored
    /\ pc' = "head"
    /\ UNCHANGED <<cfg, gameVars, ret, call, eaten, since_food, encVars,
                   agentVars, update_qvalues, q_first, act_log, ate_log, episodes,
                   callerVars, source, load_ret, trainVars>>

\* KeyboardInterrupt between two statements of the loop or of run_episode.
Interrupt ==
    /\ pc \in {"head", "start", "act", "step", "update", "after", "high",
               "periodic"}
    /\ exc' = "KeyboardInterrupt"
    /\ pc' = "finally"
    /\ UNCHANGED <<cfg, gameVars, ret, call, eaten, since_food, encVars,
                   agentVars, update_qvalues, q_first, act_log, ate_log, episodes,
                   held, held_made, fileVars, trainVars>>

\* KeyboardInterrupt inside agent.update, after the terminal step has been
\* written to the table and before the loop over the earlier steps.
InterruptUpdate ==
    /\ pc = "update"
    /\ history # <<>>
    /\ Precise(qvalues)
    /\ qvalues' = TerminalStep(qvalues, history, reason)
    /\ q_before' = qvalues
    /\ exc' = "KeyboardInterrupt"
    /\ pc' = "finally"
    /\ UNCHANGED <<cfg, gameVars, ret, call, eaten, since_food, encVars,
                   state_strategy, epsilon, history, q_terminal, acall, aret,
                   calls, update_qvalues, q_first, act_log, ate_log, episodes, held,
                   held_made, fileVars, trainVars>>

\* KeyboardInterrupt inside a save of the loop, after open(path, "w") has
\* emptied the file and before json.dump has finished.
InterruptSave ==
    /\ \/ /\ pc = "high"
          /\ snake_length - 1 > high_score
          /\ high_score' = snake_length - 1
          /\ stored' = WithHighscore(stored, snake_length - 1, Truncated)
       \/ /\ pc = "periodic"
          /\ game_count % cfg.QVALUES_SAVE_INTERVAL = 0
          /\ stored' = WithDefault(stored, Truncated)
          /\ UNCHANGED high_score
    /\ exc' = "KeyboardInterrupt"
    /\ pc' = "finally"
    /\ UNCHANGED <<cfg, gameVars, ret, call, eaten, since_food, encVars,
                   agentVars, update_qvalues, q_first, act_log, ate_log, episodes,
                   held, held_made, source, load_ret, total_steps,
                   game_count>>

\* finally: agent.save_qvalues(); a caught KeyboardInterrupt or the break
\* lets train return, any other exception goes on to the caller.
TrFinally ==
    /\ pc = "finally"
    /\ stored' = save_qvalues(stored, qvalues)
    /\ pc' = IF exc \in {None, "KeyboardInterrupt"} THEN "returned" ELSE "raised"
    /\ UNCHANGED <<cfg, gameVars, ret, call, eaten, since_food, encVars,
                   agentVars, update_qvalues, q_first, act_log, ate_log, episodes,
                   callerVars, source, load_ret, trainVars>>

NextTrain ==
    \/ TrHead
    \/ EpStart
    \/ \E rand \in RandDraws, pick \in ActionKeys : EpAct(rand, pick)
    \/ EpStep
    \/ TrUpdate
    \/ TrAfter
    \/ TrHigh
    \/ TrPeriodic
    \/ Interrupt
    \/ InterruptUpdate
    \/ InterruptSave
    \/ TrFinally

SpecTrain == InitTrain /\ [][NextTrain]_vars

\* ------------------------------------------------------------ properties
\* Cell the head would move to under action a.
Target(a) == <<snake_x + _action_to_movement(a)[1], snake_y + _action_to_movement(a)[2]>>

OffBoard(cell) ==
    \/ cell[1] < 0 \/ cell[1] >= cfg.DISPLAY_WIDTH
    \/ cell[2] < 0 \/ cell[2] >= cfg.DISPLAY_HEIGHT

Cells(list) == {list[i] : i \in 1..Len(list)}

\* A step call on a live game.
LiveStep == call'.op = "step" /\ ~dead

\* The last call was a step on a live game.
WasLiveStep == call.op = "step" /\ ~call.was_dead

\* C1: after every step the score equals the number of moves whose new head
\* cell held the food since reset, snake_length is score + 1 and snake_list
\* has exactly snake_length cells.
C1_ScoreCountsFood ==
    /\ get_score = eaten
    /\ snake_length = get_score + 1
    /\ Len(snake_list) = snake_length

\* C1 witness: a live game that ate twice and then moved without eating.
C1_Witness ==
    /\ WasLiveStep /\ ~dead
    /\ eaten >= 2
    /\ since_food > 0

\* C2: the cells of snake_list are pairwise distinct and snake_set holds
\* exactly the cells of snake_list.
C2_ListAndSetInSync ==
    /\ \A i, j \in 1..Len(snake_list) : i # j => snake_list[i] # snake_list[j]
    /\ snake_set = Cells(snake_list)

\* C2 witness: a snake of three cells has just moved without eating, so a
\* head was pushed and a tail popped.
C2_Witness ==
    /\ WasLiveStep /\ ~dead
    /\ call.was_length >= 3
    /\ ret.reward = 0

C4_TailCellExcluded ==
    [][ (/\ LiveStep
         /\ Len(snake_list) >= 2
         /\ Target(call'.action) = snake_list[1]
         /\ Target(call'.action) # food)
        => reason' # "Tail" ]_vars

\* C4 amended: the body test covers the tail cell; a move of the head onto
\* the cell of the tail, on a step that is not the starvation step, ends the
\* game with reason Tail and moves nothing.
C4_TailCellCollides ==
    [][ (/\ LiveStep
         /\ Len(snake_list) >= 2
         /\ Target(call'.action) = snake_list[1]
         /\ steps_since_last_fruit + 1 < cfg.MAX_STEPS_SINCE_LAST_FRUIT)
        => /\ dead' /\ reason' = "Tail"
           /\ UNCHANGED <<snake_x, snake_y, snake_list, snake_set,
                          snake_length, food>> ]_vars

\* C4 witness: a snake of at least four cells died moving its head onto the
\* cell of its tail.
C4_Witness ==
    /\ WasLiveStep
    /\ dead /\ reason = "Tail"
    /\ Len(snake_list) >= 4
    /\ Target(call.action) = snake_list[1]

\* C5: on a step that is not the starvation step the tests run in the order
\* wall, body, food: an off-board new head ends the game with the wall
\* reason, otherwise a new head on a body cell ends it with Tail and no food
\* is consumed even if the food is on that cell, and the food is consumed
\* exactly when neither collision occurred and the new head is on the food.
C5_CheckOrder ==
    [][ (LiveStep /\ steps_since_last_fruit + 1 < cfg.MAX_STEPS_SINCE_LAST_FRUIT)
        => LET t == Target(call'.action)
               consumed == snake_length' = snake_length + 1 /\ eaten' = eaten + 1
               untouched == UNCHANGED <<snake_list, snake_set, snake_length,
                                        food, eaten>>
           IN  /\ OffBoard(t) => (dead' /\ reason' = "Screen" /\ untouched)
               /\ (~OffBoard(t) /\ t \in Cells(snake_list))
                     => (dead' /\ reason' = "Tail" /\ untouched)
               /\ (~OffBoard(t) /\ t \notin Cells(snake_list))
                     => (~dead' /\ (consumed <=> t = food)
                         /\ (~consumed => UNCHANGED <<snake_length, food, eaten>>)) ]_vars

\* C5 witness: the game ended with Tail on a move onto a body cell that
\* held the food.
C5_Witness ==
    /\ WasLiveStep
    /\ dead /\ reason = "Tail"
    /\ Target(call.action) = food
    /\ get_score = eaten

\* C6 as stated: the reason is absent exactly when the game is not over, and
\* otherwise is one of Wall, Tail, Steps.
C6_ReasonWallTailSteps ==
    /\ (reason = None) <=> ~dead
    /\ dead => reason \in {"Wall", "Tail", "Steps"}

\* C6 amended: the reason is absent exactly when the game is not over, and
\* otherwise is one of Screen, Tail, Steps.
C6_ReasonClosedSet ==
    /\ (reason = None) <=> ~dead
    /\ dead => reason \in {"Screen", "Tail", "Steps"}

\* C6 witness: a game that ended at the wall.
C6_Witness ==
    /\ WasLiveStep
    /\ dead /\ reason = "Screen"
    /\ OffBoard(Target(call.action))

\* C7: once the game is over a step reports done with the same reason and
\* changes nothing of the game, and only reset ends that.
C7_TerminationAbsorbing ==
    [][ dead =>
          \/ call'.op = "reset"
          \/ /\ call'.op = "step"
             /\ ret'.done /\ ret'.info.reason = reason
             /\ dead' /\ reason' = reason
             /\ UNCHANGED <<snake_list, snake_set, food, current_direction,
                            snake_length, steps, steps_since_last_fruit,
                            snake_x, snake_y>> ]_vars

\* C7 witness: step was called on a game that was over.
C7_Witness ==
    /\ call.op = "step" /\ call.was_dead
    /\ dead /\ ret.done

\* C8: reset, in any state, gives a one-cell snake at the board centre with
\* a matching set, score 0, both step counters 0, not over and no reason.
C8_ResetInitialState ==
    call.op = "reset" =>
        /\ snake_list = <<<<cfg.DISPLAY_WIDTH \div 2, cfg.DISPLAY_HEIGHT \div 2>>>>
        /\ snake_set = {<<cfg.DISPLAY_WIDTH \div 2, cfg.DISPLAY_HEIGHT \div 2>>}
        /\ snake_x = cfg.DISPLAY_WIDTH \div 2
        /\ snake_y = cfg.DISPLAY_HEIGHT \div 2
        /\ snake_length = 1
        /\ get_score = 0
        /\ steps = 0
        /\ steps_since_last_fruit = 0
        /\ ~dead
        /\ reason = None

\* C8 witness: reset was called on a game that was over with a longer snake.
C8_Witness ==
    /\ call.op = "reset"
    /\ call.was_dead
    /\ call.was_length > 1

\* C9 as stated: the food is always on the board and both its coordinates
\* are multiples of BLOCK_SIZE.
C9_FoodOnGrid ==
    /\ 0 <= food[1] /\ food[1] < cfg.DISPLAY_WIDTH
    /\ 0 <= food[2] /\ food[2] < cfg.DISPLAY_HEIGHT
    /\ food[1] % cfg.BLOCK_SIZE = 0
    /\ food[2] % cfg.BLOCK_SIZE = 0

HasPrefix(k, p) == Len(k) >= Len(p) /\ SubSeq(k, 1, Len(p)) = p

\* C10: the key of a basic-encoder state and the key of a naive-encoder
\* state are different for any two observations, and each key starts with
\* its strategy identifier and a colon.
C10_StrategyKeysDisjoint ==
    \A i, j \in 1..Len(enc_out) :
        (enc_out[i].strategy = "basic" /\ enc_out[j].strategy = "naive")
        => /\ enc_out[i].key # enc_out[j].key
           /\ HasPrefix(enc_out[i].key, BASIC \o <<":">>)
           /\ HasPrefix(enc_out[j].key, NAIVE \o <<":">>)
           /\ _get_state_str(enc_out[i].state) # _get_state_str(enc_out[j].state)

\* C10 witness: the same observation, with a two-cell snake, was encoded by
\* the basic and by the naive strategy.
C10_Witness ==
    /\ Len(enc_out) = 2
    /\ enc_in[1] = enc_in[2]
    /\ Len(enc_in[1].snake) = 2
    /\ enc_out[1].strategy = "basic"
    /\ enc_out[2].strategy = "naive"

\* Head and body (the snake without its head) of an encoder input.
HeadOf(in) == in.snake[Len(in.snake)]

BodyOf(in) == {in.snake[k] : k \in 1..(Len(in.snake) - 1)}

\* The cell one block from cell c in direction index d (0 left, 1 right,
\* 2 up, 3 down).
Neighbour(c, d) ==
    <<c[1] + _action_to_movement(Actions[d + 1])[1],
      c[2] + _action_to_movement(Actions[d + 1])[2]>>

\* C11: the basic encoder gives, per axis, NA exactly when food and head
\* have the same coordinate and otherwise the sign of food minus head
\* ("1"/"0" on x, "3"/"2" on y); a danger vector of four characters in the
\* order left, right, up, down that has "1" exactly for the neighbour cells
\* that are off the board or body cells; and the direction it was given.
C11_BasicEncoder ==
    \A i \in 1..Len(enc_out) :
        enc_out[i].strategy = "basic"
        => LET in == enc_in[i]
               st == enc_out[i].state
               dx == in.food[1] - HeadOf(in)[1]
               dy == in.food[2] - HeadOf(in)[2]
           IN  /\ Len(st.position) = 2
               /\ (st.position[1] = NA) <=> (in.food[1] = HeadOf(in)[1])
               /\ (st.position[1] = <<"1">>) <=> (dx > 0)
               /\ (st.position[1] = <<"0">>) <=> (dx < 0)
               /\ (st.position[2] = NA) <=> (in.food[2] = HeadOf(in)[2])
               /\ (st.position[2] = <<"3">>) <=> (dy > 0)
               /\ (st.position[2] = <<"2">>) <=> (dy < 0)
               /\ Len(st.surroundings) = 4
               /\ \A d \in 0..3 :
                     /\ st.surroundings[d + 1] \in {"0", "1"}
                     /\ (st.surroundings[d + 1] = "1")
                           <=> (\/ OffBoard(Neighbour(HeadOf(in), d))
                                \/ Neighbour(HeadOf(in), d) \in BodyOf(in))
               /\ st.direction = in.direction

\* C11 witness: the basic encoder was given a two-cell snake whose head has
\* a body cell, an off-board cell and a free cell next to it, with the food
\* aligned on the y axis only.
C11_Witness ==
    \E i \in 1..Len(enc_out) :
        /\ enc_out[i].strategy = "basic"
        /\ Len(enc_in[i].snake) = 2
        /\ \E d \in 0..3 : Neighbour(HeadOf(enc_in[i]), d) \in BodyOf(enc_in[i])
        /\ \E d \in 0..3 : OffBoard(Neighbour(HeadOf(enc_in[i]), d))
        /\ \E d \in 0..3 : enc_out[i].state.surroundings[d + 1] = "0"
        /\ enc_out[i].state.position[2] = NA
        /\ enc_out[i].state.position[1] # NA

\* Both observations were encoded by the naive strategy and have the same
\* food and direction.
NaivePairSameFood ==
    /\ Len(enc_out) = 2
    /\ enc_out[1].strategy = "naive" /\ enc_out[2].strategy = "naive"
    /\ enc_in[1].food = enc_in[2].food
    /\ enc_in[1].direction = enc_in[2].direction

\* C12 as stated: two observations with the same food and direction and
\* different head positions get different naive keys.
C12_NaiveKeyHasHead ==
    (NaivePairSameFood /\ HeadOf(enc_in[1]) # HeadOf(enc_in[2]))
        => enc_out[1].key # enc_out[2].key

\* C12 amended: the naive key is built from the raw food coordinates and the
\* direction only, with NA in place of the danger vector: it is
\* "naive:('<food x>', '<food y>', 'NA', <direction>)", so observations with
\* the same food and direction get the same key whatever the head, whose
\* raw coordinates are held in the distance field only.
C12_NaiveKeyFoodOnly ==
    /\ \A i \in 1..Len(enc_out) :
          enc_out[i].strategy = "naive"
          => /\ enc_out[i].key =
                    NAIVE \o <<":">> \o <<"(", "'">> \o PyStrInt(enc_in[i].food[1])
                    \o <<"'", ",", " ", "'">> \o PyStrInt(enc_in[i].food[2])
                    \o <<"'", ",", " ", "'", "N", "A", "'", ",", " ">>
                    \o PyStrInt(enc_in[i].direction) \o <<")">>
             /\ enc_out[i].state.surroundings = NA
             /\ enc_out[i].state.distance = HeadOf(enc_in[i])
    /\ NaivePairSameFood => enc_out[1].key = enc_out[2].key

\* C12 witness: the naive strategy encoded two observations with the same
\* food and direction and different heads.
C12_Witness ==
    /\ NaivePairSameFood
    /\ HeadOf(enc_in[1]) # HeadOf(enc_in[2])

\* The last entry of the trajectory.
LastEntry == history[Len(history)]

\* C13: with epsilon = 0, whatever the uniform draw, act returns the name of
\* the action whose index is the smallest one attaining the maximum of the
\* row of the state's key, and records that index; for a row that is all zero
\* (a newly created one included) this is index 0, "left".
C13_GreedyLowestIndex ==
    (acall.op = "act" /\ epsilon = R0) =>
        LET row == qvalues[acall.key]
            chosen == LastEntry.action
        IN  /\ aret = Actions[chosen + 1]
            /\ \A j \in 0..3 : ~RLess(row[chosen + 1], row[j + 1])
            /\ \A j \in 0..(chosen - 1) : RLess(row[j + 1], row[chosen + 1])
            /\ (acall.key \notin DOMAIN q_before => aret = "left")
            /\ ((\A j \in 1..4 : row[j] = R0) => aret = "left")

\* A greedy act has broken a tie in favour of an index that is not 0.
C13_Witness ==
    /\ acall.op = "act"
    /\ epsilon = R0
    /\ LastEntry.action >= 1
    /\ \E j \in (LastEntry.action + 1)..3 :
           qvalues[acall.key][j + 1] = qvalues[acall.key][LastEntry.action + 1]

\* The keys of the states of the current trajectory.
HistoryKeys == {_get_state_str(history[i].state) : i \in 1..Len(history)}

\* C14: every row of the Q-table has length 4; every state of the current
\* trajectory has a row under its key; and a row that the last call has added
\* belongs to a key that call visited: the key act just encoded, the row being
\* all zero, or the key of a trajectory state during update.
C14_RowsLazyZero ==
    /\ \A k \in DOMAIN qvalues : Len(qvalues[k]) = 4
    /\ HistoryKeys \subseteq DOMAIN qvalues
    /\ \A k \in DOMAIN qvalues \ DOMAIN q_before :
           \/ /\ acall.op = "act"
              /\ k = acall.key
              /\ \A i \in 1..4 : qvalues[k][i] = R0
           \/ /\ acall.op = "update"
              /\ k \in HistoryKeys

\* act has added a row to a table that had rows already, after earlier calls.
C14_Witness ==
    /\ acall.op = "act"
    /\ acall.key \notin DOMAIN q_before
    /\ DOMAIN q_before # {}
    /\ calls >= 3
    /\ Len(history) >= 2

\* Q[k][i] of a table, 0 where the table has no row for k.
ValueAt(q, k, i) == IF k \in DOMAIN q THEN q[k][i] ELSE R0

\* C15: when update is called with a termination reason on a non-empty
\* trajectory, the table after its terminal step differs from the table at
\* entry in the entry of the last (state, action) only, which goes from old to
\* old + alpha * (penalty - old), penalty being -3 for "Steps" and -30 for
\* any other reason; for a one-entry trajectory that is the whole update.
C15_TerminalStep ==
    (acall.op = "update" /\ acall.reason # None /\ history # <<>>) =>
        LET k == _get_state_str(LastEntry.state)
            a == LastEntry.action + 1
            old == ValueAt(q_before, k, a)
            penalty == IF acall.reason = "Steps" THEN RInt(-3) ELSE RInt(-30)
        IN  /\ q_terminal[k][a] =
                   RAdd(old, RMul(LEARNING_RATE, RSub(penalty, old)))
            /\ DOMAIN q_terminal = DOMAIN q_before \cup {k}
            /\ \A k2 \in DOMAIN q_terminal : \A i \in 1..4 :
                   (k2 # k \/ i # a) =>
                       q_terminal[k2][i] = ValueAt(q_before, k2, i)
            /\ (Len(history) = 1 => qvalues = q_terminal)

\* update("Steps") has run on a trajectory of two entries or more whose last
\* entry had a non-zero value.
C15_Witness ==
    /\ acall.op = "update"
    /\ acall.reason = "Steps"
    /\ Len(history) >= 2
    /\ ValueAt(q_before, _get_state_str(LastEntry.state), LastEntry.action + 1) # R0
    /\ q_terminal # q_before

\* The reward of the i-th consecutive pair of the trajectory: 10 if the food
\* differs between the two states, else 0.001 if the absolute distance has
\* strictly decreased on an axis, else -0.001.
C16_Reward(i) ==
    LET s0 == history[i].state
        s1 == history[i + 1].state
    IN  IF s0.food # s1.food THEN <<10, 1>>
        ELSE IF \E ax \in 1..2 : Abs(s1.distance[ax]) < Abs(s0.distance[ax])
             THEN <<1, 1000>>
             ELSE <<-1, 1000>>

\* The table once the pairs 1..i have been processed after the terminal
\* step: the table of the pairs 1..i-1 with the entry of (s_i, a_i) alone
\* rewritten from the values of that table.
RECURSIVE C16_Table(_)
C16_Table(i) ==
    IF i = 0 THEN q_terminal
    ELSE LET q == C16_Table(i - 1)
             ki == _get_state_str(history[i].state)
             kn == _get_state_str(history[i + 1].state)
             best == CHOOSE v \in {q[kn][j] : j \in 1..4} :
                         \A j \in 1..4 : ~RLess(v, q[kn][j])
             new == RAdd(RMul(<<3, 4>>, q[ki][history[i].action + 1]),
                         RMul(<<1, 4>>, RAdd(C16_Reward(i), RMul(<<1, 2>>, best))))
         IN  [k \in DOMAIN q |->
                  [j \in 1..4 |->
                       IF k = ki /\ j = history[i].action + 1 THEN new
                       ELSE q[k][j]]]

\* C16: after its terminal step, update processes the consecutive pairs of
\* the trajectory from the first to the last, each write being computed from
\* the table as the earlier writes of the batch have left it, and writes
\* nothing else (alpha = 1/4 and gamma = 1/2 here).
C16_ForwardBellman ==
    (acall.op = "update" /\ history # <<>>) =>
        qvalues = C16_Table(Len(history) - 1)

\* update has run on a trajectory of three entries in which a state comes
\* twice and the of the two pairs differ.
C16_Witness ==
    /\ acall.op = "update"
    /\ acall.reason # None
    /\ Len(history) = 3
    /\ _get_state_str(history[2].state) = _get_state_str(history[3].state)
    /\ C16_Reward(1) # C16_Reward(2)

\* C18 as stated: once update has returned, the trajectory is empty.
C18_HistoryDiscarded == acall.op = "update" => history = <<>>

\* C18 amended: update leaves the trajectory as it was, and with an empty
\* trajectory it changes no Q-value and returns 0; reset is what empties the
\* trajectory.
C18_HistoryKeptUntilReset ==
    [][ /\ (acall'.op = "update" /\ calls' = calls + 1) =>
              /\ history' = history
              /\ (history = <<>> => qvalues' = qvalues /\ aret' = R0)
        /\ (acall'.op = "reset" /\ acall'.after = acall.op) =>
              history' = <<>> ]_vars

\* update has been called twice in a row on a trajectory that it had not
\* emptied, and the second call has changed the table again.
C18_Witness ==
    /\ acall.op = "update"
    /\ acall.after = "update"
    /\ history # <<>>
    /\ qvalues # q_before
    /\ aret # R0

\* C17: when update runs at the end of a training episode, an interior
\* transition gets the reward 10 if and only if the snake ate on the
\* environment step taken between its two recorded states.
C17_TenIffAte ==
    (update_qvalues /\ acall.op = "update") =>
        \A i \in 1..(Len(history) - 1) :
            (ShapedReward(history[i].state, history[i + 1].state) = RInt(10))
                <=> ate_log[i]

\* C19 as stated: a pair is appended only once the environment has been
\* stepped, so the trajectory never has more entries than steps were taken.
C19_AppendedAfterStep == Len(history) <= steps

\* C19 amended: when the environment is about to be stepped, the pair of this
\* iteration is in the trajectory already: its state is the encoding of the
\* game as it is before the step and its action the one act returned; once
\* the step is taken, it was taken with the action of the last pair.
C19_AppendedBeforeStep ==
    /\ pc = "step" =>
          /\ Len(history) = steps + 1
          /\ LastEntry.state =
                 StateAfterKey(_get_state(state_strategy, current_direction,
                                          snake_list, food))
          /\ aret = Actions[LastEntry.action + 1]
    /\ (pc \in {"act", "update"} /\ steps > 0) =>
          /\ Len(history) = steps
          /\ call.op = "step"
          /\ call.action = Actions[LastEntry.action + 1]
    /\ (pc = "act" /\ steps = 0) => history = <<>>

\* In the second iteration or later, the action is selected and recorded and
\* the step not yet taken.
C19_Witness ==
    /\ pc = "step"
    /\ steps >= 1
    /\ Len(history) = steps + 1

RECURSIVE C24_Sum(_)
C24_Sum(n) == IF n = 0 THEN R0 ELSE RAdd(C24_Sum(n - 1), C16_Reward(n))

\* C24: update returns the sum of the shaped rewards of all the interior
\* transitions, plus -3 or -30 when a termination reason is given; with an
\* empty trajectory it returns 0 and leaves the Q-table as it was.
C24_ReturnsAccumulated ==
    acall.op = "update" =>
        IF history = <<>>
        THEN aret = R0 /\ qvalues = q_before
        ELSE aret = RAdd(C24_Sum(Len(history) - 1),
                         IF acall.reason = None THEN R0
                         ELSE IF acall.reason = "Steps" THEN <<-3, 1>>
                         ELSE <<-30, 1>>)

\* update has returned the total of a penalty and of two interior rewards, one
\* of them for food.
C24_Witness ==
    /\ acall.op = "update"
    /\ acall.reason = "Steps"
    /\ Len(history) = 3
    /\ C16_Reward(1) = <<10, 1>>
    /\ C16_Reward(2) # <<10, 1>>

\* The cell lies within the board.
C28_OnBoard(c) ==
    /\ 0 <= c[1] /\ c[1] < cfg.DISPLAY_WIDTH
    /\ 0 <= c[2] /\ c[2] < cfg.DISPLAY_HEIGHT

\* C28: whether the game is over or not, the head and every cell of the
\* snake, in the list and in the set, lie within the board; so no cell a move
\* could reach is both off the board and a cell of the snake.
C28_SnakeOnBoard ==
    /\ C28_OnBoard(<<snake_x, snake_y>>)
    /\ \A c \in Cells(snake_list) \cup snake_set : C28_OnBoard(c)
    /\ \A a \in ActionNames :
           ~(~C28_OnBoard(Target(a)) /\ Target(a) \in snake_set)

\* A snake of two cells or more has just run into the wall.
C28_Witness ==
    /\ WasLiveStep
    /\ dead /\ reason = "Screen"
    /\ snake_length >= 2
    /\ ~C28_OnBoard(Target(call.action))

\* The danger vector the basic encoder computes for the game as it is.
C29_Danger ==
    get_state_basic(current_direction, snake_list, food, cfg.DISPLAY_WIDTH,
                    cfg.DISPLAY_HEIGHT, cfg.BLOCK_SIZE).surroundings

\* C29: on every step of a live game that is not the starvation step, the
\* danger bit that the basic encoder gave to the direction of the action
\* before the step is 1 if and only if the step ends the game with the reason
\* Screen or Tail.
C29_DangerAgrees ==
    [][ (LiveStep /\ steps_since_last_fruit + 1 < cfg.MAX_STEPS_SINCE_LAST_FRUIT)
        => \A d \in 0..3 :
               call'.action = Actions[d + 1] =>
                   ((C29_Danger[d + 1] = "1")
                        <=> (dead' /\ reason' \in {"Screen", "Tail"})) ]_vars

\* A step has ended the game on a body cell in a state in which another
\* direction was free and a third one led off the board.
C29_Witness ==
    /\ WasLiveStep
    /\ dead /\ reason = "Tail"
    /\ \E d \in 0..3 : C29_Danger[d + 1] = "0"
    /\ \E a \in ActionNames : ~C28_OnBoard(Target(a))

\* The number of cells of the board.
C30_BoardCells ==
    (cfg.DISPLAY_WIDTH \div cfg.BLOCK_SIZE) * (cfg.DISPLAY_HEIGHT \div cfg.BLOCK_SIZE)

\* C30: a game that is not over has taken fewer than
\* MAX_STEPS_SINCE_LAST_FRUIT steps since the last food (or the reset), no game
\* goes beyond that number, the foods eaten are fewer than the board has
\* cells, and so the steps of a game never exceed MAX_STEPS_SINCE_LAST_FRUIT
\* times the number of cells: every game is over after that many steps.
C30_EpisodeBounded ==
    /\ ~dead => steps_since_last_fruit < cfg.MAX_STEPS_SINCE_LAST_FRUIT
    /\ steps_since_last_fruit <= cfg.MAX_STEPS_SINCE_LAST_FRUIT
    /\ since_food = steps_since_last_fruit
    /\ eaten + 1 <= C30_BoardCells
    /\ steps <= cfg.MAX_STEPS_SINCE_LAST_FRUIT * (eaten + 1)
    /\ steps <= cfg.MAX_STEPS_SINCE_LAST_FRUIT * C30_BoardCells

\* A game has ended for lack of food after the snake had eaten, on the last
\* step its budget allowed.
C30_Witness ==
    /\ WasLiveStep
    /\ dead /\ reason = "Steps"
    /\ eaten >= 1
    /\ steps_since_last_fruit = cfg.MAX_STEPS_SINCE_LAST_FRUIT

\* C23 (as claimed): whenever step is called with a string that is not one
\* of the four actions, the call ends in an error, whatever the state of
\* the game: over, at the starvation threshold, or neither.
C23_BadActionAlwaysFatal ==
    (call.op = "step" /\ call.action \notin ActionNames) => exc = "KeyError"

\* C25 (as claimed): the observation a caller holds is what it was when
\* get_observation returned it, however the game is stepped afterwards.
C25_ObservationImmutable ==
    held # <<>> => held[1] = held_made

\* The persisted form of a Q-table: an object whose every value is an
\* array of four numbers.
C21_IsTable(v) ==
    /\ v[1] = "obj"
    /\ \A k \in DOMAIN v[2] :
          /\ v[2][k][1] = "arr"
          /\ Len(v[2][k][2]) = 4
          /\ \A i \in 1..4 : v[2][k][2][i][1] = "num"

\* The file is there and its content is not the persisted form of a table.
C21_Malformed ==
    /\ source # <<>>
    /\ \/ json_load(source[1]) = <<>>
       \/ ~C21_IsTable(json_load(source[1])[1])

\* C21 (as claimed): once load_qvalues has run, a missing file has given an
\* empty table and no error, and a file that is there but does not hold a
\* table has given an error and no table.
C21_MissingEmptyMalformedFatal ==
    acall.op = "load_qvalues" =>
        /\ source = <<>> => (exc = None /\ load_ret = << <<"obj", <<>>>> >>)
        /\ C21_Malformed => (exc # None /\ load_ret = <<>>)

\* C22: when train has returned after a user interrupt, wherever in the
\* loop the interrupt came (between statements, inside the update, inside
\* a save), the file at the default path holds the agent's Q-table as it
\* is at that moment, written to the end.
C22_FlushedOnInterrupt ==
    (pc = "returned" /\ exc = "KeyboardInterrupt") =>
        stored.default = <<Dumped(qvalues)>>

\* train has returned after an interrupt that came inside update, with the
\* terminal step already written to a row of the table.
C22_Witness ==
    /\ pc = "returned"
    /\ exc = "KeyboardInterrupt"
    /\ dead
    /\ acall.op = "act"
    /\ \E k \in DOMAIN q_before : qvalues[k] # q_before[k]
    /\ stored.default = <<Dumped(qvalues)>>

\* C26 (as claimed): with MAX_STEPS = None no iteration of the training
\* loop fails.
C26_UnlimitedNeverFails ==
    cfg.MAX_STEPS = <<>> => exc # "TypeError"

\* C27 (as claimed): with MAX_STEPS = M the steps of the episodes played
\* so far, which train adds up in total_steps, never exceed M.
C27_TotalWithinBudget ==
    cfg.MAX_STEPS # <<>> => total_steps <= cfg.MAX_STEPS[1]

\* C31: a step of a live game that brings steps_since_last_fruit to the
\* threshold ends the game with reason Steps and leaves the snake, its
\* length, the direction, the food and the count of foods eaten as they
\* were, whatever cell the requested move pointed at: a wall, the body or
\* the food.
C31_StarvationFirst ==
    [][ (LiveStep /\ steps_since_last_fruit + 1 >= cfg.MAX_STEPS_SINCE_LAST_FRUIT)
        => /\ dead' /\ reason' = "Steps"
           /\ ret'.info.reason = "Steps"
           /\ snake_x' = snake_x /\ snake_y' = snake_y
           /\ snake_list' = snake_list /\ snake_set' = snake_set
           /\ snake_length' = snake_length
           /\ current_direction' = current_direction
           /\ food' = food
           /\ eaten' = eaten ]_vars

\* The game has just ended by starvation on a step whose requested move
\* pointed at the food cell, after the snake had moved and turned before.
C31_Witness ==
    /\ WasLiveStep
    /\ dead /\ reason = "Steps"
    /\ Target(call.action) = food
    /\ steps >= 2
    /\ current_direction # DIRECTION_FROM_STRING(call.action)

\* run_episode has left its loop: the update is due, or the episode has
\* returned and the next has not begun.
C32_EpisodeOver == pc = "update" \/ (pc = "start" /\ episodes > 0)

\* C32: at the end of every episode, the first and the later ones alike,
\* the trajectory has one entry per step of that episode, in the order of
\* the steps, and the action of the i-th entry is the action that was
\* handed to the i-th step.
C32_OneEntryPerStep ==
    C32_EpisodeOver =>
        /\ Len(history) = steps
        /\ Len(act_log) = steps
        /\ \A i \in 1..Len(history) :
               Actions[history[i].action + 1] = act_log[i]

\* A second episode of two steps with two different actions has ended,
\* after a first episode of one step.
C32_Witness ==
    /\ pc = "update"
    /\ episodes = 1
    /\ steps = 2
    /\ Len(history) = 2
    /\ history[1].action # history[2].action

\* The reward of the i-th transition of the trajectory as the action of
\* its step decides it: 10 when the food changed, else 0.001 for a move
\* left (index 0) or up (index 2) and -0.001 for a move right or down.
C33_ByAction(i) ==
    IF history[i].state.food # history[i + 1].state.food THEN <<10, 1>>
    ELSE IF history[i].action \in {0, 2} THEN <<1, 1000>>
    ELSE <<-1, 1000>>

RECURSIVE C33_Sum(_)
C33_Sum(n) == IF n = 0 THEN R0 ELSE RAdd(C33_Sum(n - 1), C33_ByAction(n))

\* C33: under the naive encoder the shaped reward of a transition on which
\* the food did not change is 0.001 exactly when the step was a move left
\* or up, which is when the head's x or y coordinate got smaller, and
\* -0.001 otherwise, wherever the food is; update returns the sum of these
\* rewards and the terminal one.
C33_NaiveShapingFollowsAction ==
    state_strategy = "naive" =>
        /\ \A i \in 1..(Len(history) - 1) :
               /\ ShapedReward(history[i].state, history[i + 1].state)
                      = C33_ByAction(i)
               /\ history[i].state.food = history[i + 1].state.food =>
                      (history[i].action \in {0, 2}
                           <=> \E ax \in 1..2 :
                                   Abs(history[i + 1].state.distance[ax])
                                       < Abs(history[i].state.distance[ax]))
        /\ (acall.op = "update" /\ history # <<>>) =>
               aret = RAdd(C33_Sum(Len(history) - 1), TerminalReward(acall.reason))

\* update has run under the naive encoder on an episode of three steps
\* without eating: the first transition earned 0.001, the second -0.001.
C33_Witness ==
    /\ state_strategy = "naive"
    /\ acall.op = "update"
    /\ Len(history) = 3
    /\ history[1].state.food = history[3].state.food
    /\ ShapedReward(history[1].state, history[2].state) = <<1, 1000>>
    /\ ShapedReward(history[2].state, history[3].state) = <<-1, 1000>>
    /\ aret = TerminalReward(acall.reason)

====
